---- MODULE Spec2Model ----
(***************************************************************************)
(* Request-processing pipeline of the Express API template: token          *)
(* authentication, Zod validation, the items service and repository, and   *)
(* the central error middleware.                                           *)
(*                                                                         *)
(* One HTTP request occupies one slot.  Everything Express runs            *)
(* synchronously for a request (authMiddleware, the validate middlewares,  *)
(* the handler up to its first await, and errorMiddleware when one of      *)
(* them throws) is one atomic step; every statement sent to the MySQL pool *)
(* is one further atomic step, so that statements of concurrent requests   *)
(* interleave exactly at the store round trips.                            *)
(*                                                                         *)
(* Optional values (an absent header, an undefined field, SQL NULL) are    *)
(* sequences of length 0 or 1.  Time is counted in whole seconds.          *)
(***************************************************************************)
EXTENDS Integers, Sequences, FiniteSets, TLC

VARIABLES
    items,      \* table `items`: id -> row, for the ids that have a row
    nextId,     \* AUTO_INCREMENT counter of the table
    now,        \* wall clock, in seconds
    env,        \* validated configuration (read-only after startup)
    req,        \* slot -> the request in flight in that slot
    deleted,    \* history: the ids a Delete has answered 204 for
    issued,     \* history: the tokens loginHandler has signed
    client,     \* the number of requests the scripted client has sent
    pool,       \* the MySQL pool: its state, the statements that hold a
                \* connection and those that wait for one
    proc        \* the process: the HTTP server, the signals received, the
                \* timers of gracefulShutdown and the exit code

vars == <<items, nextId, now, env, req, deleted, issued, client, pool, proc>>

-----------------------------------------------------------------------------
(* Bounds of the model *)

MaxId == 1          \* rows are inserted while nextId <= MaxId
MaxClock == 1       \* the clock stops at MaxClock
MaxPageCfg == 2     \* DEFAULT_PAGE_LIMIT and MAX_PAGE_LIMIT range over 1..MaxPageCfg
MaxRows == 2        \* in the listing specifications, rows are inserted while nextId <= MaxRows
MaxLife == 2        \* JWT_EXPIRY ranges over 1..MaxLife seconds in the login specification
MaxPool == 2        \* DB_POOL_SIZE ranges over 1..MaxPool in the pool specification

Slots == {1, 2}

-----------------------------------------------------------------------------
(* Optional values *)

None == <<>>
Some(v) == <<v>>
IsSome(o) == Len(o) = 1
Get(o) == o[1]

-----------------------------------------------------------------------------
(* utils/apiResponse: the response envelope.  A response that was given no *)
(* field keeps that field's neutral value.                                 *)

NoPagination == [total |-> 0, page |-> 0, limit |-> 0, totalPages |-> 0]

BaseResponse ==
    [status |-> 0, success |-> FALSE, error |-> None, details |-> None,
     data |-> <<>>, item |-> None, pagination |-> NoPagination, id |-> None,
     token |-> None, cookies |-> <<>>]

\* errorResponse(message, details?): details are included only when truthy.
errorResponse(status, message, details) ==
    [BaseResponse EXCEPT !.status = status, !.error = Some(message),
                         !.details = details]

successResponse(status) ==
    [BaseResponse EXCEPT !.status = status, !.success = TRUE]

-----------------------------------------------------------------------------
(* Errors and their classes.  instanceof follows the prototype chain:      *)
(* jsonwebtoken's TokenExpiredError and NotBeforeError extend              *)
(* JsonWebTokenError; HttpError, ZodError and JsonWebTokenError extend     *)
(* Error.                                                                  *)

SuperClass(c) ==
    CASE c = "TokenExpiredError" -> "JsonWebTokenError"
      [] c = "NotBeforeError"    -> "JsonWebTokenError"
      [] OTHER                   -> "Error"

InstanceOf(err, c) ==
    \/ err.class = c
    \/ SuperClass(err.class) = c
    \/ c = "Error"

NoError ==
    [class |-> "none", statusCode |-> 0, message |-> "", issues |-> <<>>,
     stack |-> ""]

MkError(class, message) == [NoError EXCEPT !.class = class, !.message = message]

HttpError(statusCode, message) ==
    [NoError EXCEPT !.class = "HttpError", !.statusCode = statusCode,
                    !.message = message]

ZodError(issues) ==
    [NoError EXCEPT !.class = "ZodError", !.message = "zod", !.issues = issues]

\* new Error(message), or an instance of a class the middleware does not
\* know, with the stack trace it captured.
Error(class, message, stack) ==
    [NoError EXCEPT !.class = class, !.message = message, !.stack = stack]

\* Mutant: HttpError is not recognised.
errorMiddleware_NoHttpError(err) ==
    IF InstanceOf(err, "ZodError")
    THEN errorResponse(400, "Données invalides", Some(err.issues))
    ELSE IF InstanceOf(err, "JsonWebTokenError")
    THEN errorResponse(401, "Token invalide", None)
    ELSE errorResponse(500,
                       IF env.NODE_ENV = "production" THEN "Erreur serveur"
                       ELSE err.message,
                       None)

\* Mutant: the message of an unclassified error is surfaced in every mode.
errorMiddleware_Leaky(err) ==
    IF InstanceOf(err, "HttpError")
    THEN errorResponse(err.statusCode, err.message, None)
    ELSE IF InstanceOf(err, "ZodError")
    THEN errorResponse(400, "Données invalides", Some(err.issues))
    ELSE IF InstanceOf(err, "JsonWebTokenError")
    THEN errorResponse(401, "Token invalide", None)
    ELSE errorResponse(500, err.message, None)

\* errorMiddleware as the source orders its instanceof tests.  The issues of
\* a ZodError are an array, which is truthy, so they are always included.
errorMiddleware(err) ==
    IF InstanceOf(err, "HttpError")
    THEN errorResponse(err.statusCode, err.message, None)
    ELSE IF InstanceOf(err, "ZodError")
    THEN errorResponse(400, "Données invalides", Some(err.issues))
    ELSE IF InstanceOf(err, "JsonWebTokenError")
    THEN errorResponse(401, "Token invalide", None)
    ELSE IF InstanceOf(err, "TokenExpiredError")
    THEN errorResponse(401, "Token expiré", None)
    ELSE errorResponse(500,
                       IF env.NODE_ENV = "production" THEN "Erreur serveur"
                       ELSE err.message,
                       None)

\* formatMessage: the line console.error receives, as the time, the level
\* in upper case, the message and the context.
formatMessage(level, message, context) ==
    [timestamp |-> now, level |-> level, message |-> message,
     context |-> context]

\* What a request makes the process emit: a line on the console or the
\* response.
NoLine == formatMessage("", "", [message |-> "", stack |-> ""])
LogEffect(line) == [kind |-> "log", line |-> line, resp |-> BaseResponse]
ResponseEffect(resp) == [kind |-> "response", line |-> NoLine, resp |-> resp]

\* The error reaches the last branch of errorMiddleware.
Unclassified(err) ==
    /\ ~InstanceOf(err, "HttpError")
    /\ ~InstanceOf(err, "ZodError")
    /\ ~InstanceOf(err, "JsonWebTokenError")
    /\ ~InstanceOf(err, "TokenExpiredError")

\* logger.error('Erreur non gérée', { message, stack })
UnhandledLine(err) ==
    formatMessage("ERROR", "Erreur non gérée",
                  [message |-> err.message, stack |-> err.stack])

\* Mutant: the response is sent before the line is written.
errorMiddlewareEffects_ResponseFirst(err) ==
    <<ResponseEffect(errorMiddleware(err))>>
    \o (IF Unclassified(err) THEN <<LogEffect(UnhandledLine(err))>> ELSE <<>>)

\* What errorMiddleware emits, in the order of its statements: logger.error
\* comes before res.status(500).json in the last branch, and the other
\* branches only respond.
errorMiddlewareEffects(err) ==
    (IF Unclassified(err) THEN <<LogEffect(UnhandledLine(err))>> ELSE <<>>)
    \o <<ResponseEffect(errorMiddleware(err))>>

-----------------------------------------------------------------------------
(* Tokens.  A token string is the empty string, a string that is no JWT,   *)
(* or a JWT with a signature (made with JWT_SECRET or not), an expiry      *)
(* second and its payload.                                                 *)

EmptyToken == [kind |-> "empty", signed |-> FALSE, exp |-> 0, timestamp |-> 0]
Garbage == [kind |-> "garbage", signed |-> FALSE, exp |-> 0, timestamp |-> 0]
Jwt(signed, iat, exp) ==
    [kind |-> "jwt", signed |-> signed, exp |-> exp, timestamp |-> iat]

\* Mutant: the lifetime is added to the issue time a thousandfold.
jwtSign_Millis(payload, expiresIn, clockTimestamp) ==
    [kind |-> "jwt", signed |-> TRUE, exp |-> clockTimestamp + expiresIn * 1000,
     timestamp |-> payload.timestamp]

\* jwt.sign(payload, env.JWT_SECRET, { expiresIn }) at second clockTimestamp:
\* iat is the second of the signature and exp = iat + expiresIn.
jwtSign(payload, expiresIn, clockTimestamp) ==
    [kind |-> "jwt", signed |-> TRUE, exp |-> clockTimestamp + expiresIn,
     timestamp |-> payload.timestamp]

\* A bcrypt hash: one-way, so all the model keeps of it is which password
\* it is the hash of.
BcryptHash(password) == [bcrypt |-> password]

\* Mutant: every password matches.
bcryptCompare_Always(password, hash) == TRUE

\* bcrypt.compare(password, hash)
bcryptCompare(password, hash) == BcryptHash(password) = hash

\* JavaScript truthiness of an optional string: undefined and "" are falsy.
Truthy(tok) == IsSome(tok) /\ Get(tok).kind # "empty"

\* jwt.verify(token, env.JWT_SECRET) at second clockTimestamp: the signature
\* is checked before the expiry; a token is expired from its exp second on.
jwtVerify(token, clockTimestamp) ==
    IF token.kind # "jwt" THEN MkError("JsonWebTokenError", "jwt malformed")
    ELSE IF ~token.signed THEN MkError("JsonWebTokenError", "invalid signature")
    ELSE IF clockTimestamp >= token.exp THEN MkError("TokenExpiredError", "jwt expired")
    ELSE NoError

\* An Authorization header value: its first seven characters and the rest.
Header(prefix, rest) == [prefix |-> prefix, rest |-> rest]

\* authHeader?.startsWith('Bearer ') ? authHeader.slice(7) : undefined
BearerToken(authorization) ==
    IF IsSome(authorization) /\ Get(authorization).prefix = "Bearer "
    THEN Some(Get(authorization).rest)
    ELSE None

\* Mutant: the cookie is preferred to the header.
ExtractToken_CookieFirst(http) ==
    IF Truthy(http.cookie) THEN http.cookie ELSE BearerToken(http.authorization)

\* (header token) || request.cookies?.authToken
ExtractToken(http) ==
    IF Truthy(BearerToken(http.authorization)) THEN BearerToken(http.authorization)
    ELSE http.cookie

\* authMiddleware: answers 401 itself when no token is found, passes the
\* verification error to next(error), or attaches request.user and calls next().
authMiddleware(http, clockTimestamp) ==
    LET token == ExtractToken(http) IN
    IF ~Truthy(token)
    THEN [outcome |-> "respond", err |-> NoError, user |-> None,
          resp |-> errorResponse(401, "Token d'authentification manquant", None)]
    ELSE LET err == jwtVerify(Get(token), clockTimestamp) IN
         IF err.class = "none"
         THEN [outcome |-> "next", err |-> NoError, resp |-> BaseResponse,
               user |-> Some([authenticated |-> TRUE,
                              timestamp |-> Get(token).timestamp])]
         ELSE [outcome |-> "error", err |-> err, user |-> None,
               resp |-> BaseResponse]

-----------------------------------------------------------------------------
(* Strings of a query, a path or a body, and the conversions the code      *)
(* applies to them.                                                        *)

\* Number(s) for the strings the model sends: the value, whether it is NaN
\* and whether it is an integer.
ToNumber(s) ==
    CASE s = ""    -> [nan |-> FALSE, int |-> TRUE,  v |-> 0]
      [] s = "0"   -> [nan |-> FALSE, int |-> TRUE,  v |-> 0]
      [] s = "1"   -> [nan |-> FALSE, int |-> TRUE,  v |-> 1]
      [] s = "2"   -> [nan |-> FALSE, int |-> TRUE,  v |-> 2]
      [] s = "3"   -> [nan |-> FALSE, int |-> TRUE,  v |-> 3]
      [] s = "4"   -> [nan |-> FALSE, int |-> TRUE,  v |-> 4]
      [] s = "5"   -> [nan |-> FALSE, int |-> TRUE,  v |-> 5]
      [] s = "-1"  -> [nan |-> FALSE, int |-> TRUE,  v |-> 0 - 1]
      [] s = "1.5" -> [nan |-> FALSE, int |-> FALSE, v |-> 1]
      [] OTHER     -> [nan |-> TRUE,  int |-> FALSE, v |-> 0]

\* String.prototype.toUpperCase for the strings the model sends.
ToUpperCase(s) ==
    CASE s \in {"asc", "Asc", "aSC", "ASC"}     -> "ASC"
      [] s \in {"desc", "Desc", "dESC", "DESC"} -> "DESC"
      [] s = "up"                               -> "UP"
      [] OTHER                                  -> s

\* Rank of a name in the collation of the table.
Collate(name) ==
    CASE name = ""  -> 0
      [] name = "a" -> 1
      [] name = "b" -> 2
      [] OTHER      -> 3

Min(a, b) == IF a <= b THEN a ELSE b

\* Math.ceil(a / b) for a >= 0, b > 0
Ceil(a, b) == (a + b - 1) \div b

-----------------------------------------------------------------------------
(* schemas: each schema yields the list of Zod issues of an input, empty   *)
(* when the input parses.                                                  *)

Issue(path, code) == <<[path |-> path, code |-> code]>>

\* z.coerce.number().int().positive().optional()
CoercedPositiveInt(path, raw) ==
    IF ~IsSome(raw) THEN <<>>
    ELSE LET n == ToNumber(Get(raw)) IN
         IF n.nan THEN Issue(path, "invalid_type")
         ELSE (IF n.int THEN <<>> ELSE Issue(path, "not_integer"))
              \o (IF n.v > 0 THEN <<>> ELSE Issue(path, "too_small"))

\* z.enum(values).optional()
OptionalEnum(path, raw, values) ==
    IF ~IsSome(raw) \/ Get(raw) \in values THEN <<>>
    ELSE Issue(path, "invalid_enum_value")

SortDirectionEnum == {"asc", "desc"}

ItemSortFieldEnum == {"id", "name", "created_at", "updated_at"}

ListItemsQuerySchema(query) ==
    CoercedPositiveInt("limit", query.limit)
    \o CoercedPositiveInt("page", query.page)
    \o OptionalEnum("sortBy", query.sortBy, ItemSortFieldEnum)
    \o OptionalEnum("sortDirection", query.sortDirection, SortDirectionEnum)

\* id: z.coerce.number().int().positive(), required
IdParamSchema(params) ==
    IF ~IsSome(params.id) THEN Issue("id", "invalid_type")
    ELSE CoercedPositiveInt("id", params.id)

\* name: z.string().min(1); description: z.string().optional()
CreateItemSchema(body) ==
    IF ~IsSome(body.name) THEN Issue("name", "invalid_type")
    ELSE IF Get(body.name) = "" THEN Issue("name", "too_small")
    ELSE <<>>

\* name: z.string().min(1).optional(); description: z.string().optional()
UpdateItemSchema(body) ==
    IF IsSome(body.name) /\ Get(body.name) = "" THEN Issue("name", "too_small")
    ELSE <<>>

\* password: z.string().min(1)
LoginSchema(body) ==
    IF ~IsSome(body.password) THEN Issue("password", "invalid_type")
    ELSE IF Get(body.password) = "" THEN Issue("password", "too_small")
    ELSE <<>>

-----------------------------------------------------------------------------
(* The table `items` and the statements of repositories/itemRepository.    *)

\* created_at and updated_at DEFAULT CURRENT_TIMESTAMP
DefaultTimestamps(row) == [row EXCEPT !.created_at = now, !.updated_at = now]

\* updated_at ON UPDATE CURRENT_TIMESTAMP: set when the statement changes the row
OnUpdateTimestamp(old, new) ==
    IF new # old THEN [new EXCEPT !.updated_at = now] ELSE new

ALLOWED_SORT_FIELDS == {"id", "name", "created_at", "updated_at"}

ALLOWED_SORT_DIRECTIONS == {"ASC", "DESC"}

\* Mutant: the sort field is not checked against the whitelist.
OrderBy_NoWhitelist(sortBy, sortDirection) ==
    [field |-> IF IsSome(sortBy) THEN Get(sortBy) ELSE "created_at",
     dir |-> IF IsSome(sortDirection)
                /\ ToUpperCase(Get(sortDirection)) \in ALLOWED_SORT_DIRECTIONS
             THEN ToUpperCase(Get(sortDirection)) ELSE "DESC"]

\* The ORDER BY clause findAll builds from its arguments.
OrderBy(sortBy, sortDirection) ==
    LET by == IF IsSome(sortBy) THEN Get(sortBy) ELSE "created_at"
        dir == IF IsSome(sortDirection) THEN Get(sortDirection) ELSE "DESC"
    IN  [field |-> IF by \in ALLOWED_SORT_FIELDS THEN by ELSE "created_at",
         dir |-> IF ToUpperCase(dir) \in ALLOWED_SORT_DIRECTIONS
                 THEN ToUpperCase(dir) ELSE "DESC"]

SortKey(row, field) ==
    CASE field = "id"         -> row.id
      [] field = "name"       -> Collate(row.name)
      [] field = "updated_at" -> row.updated_at
      [] OTHER                -> row.created_at

Ordered(rows, order) ==
    \A i, j \in 1..Len(rows) :
        i < j => IF order.dir = "ASC"
                 THEN SortKey(rows[i], order.field) <= SortKey(rows[j], order.field)
                 ELSE SortKey(rows[i], order.field) >= SortKey(rows[j], order.field)

\* LIMIT limit OFFSET offset
Window(rows, limit, offset) ==
    SubSeq(rows, offset + 1, Min(offset + limit, Len(rows)))

\* SELECT * FROM items ORDER BY .. LIMIT ? OFFSET ?: the results the store may
\* return (rows with equal keys come in any order).
findAll(limit, offset, sortBy, sortDirection) ==
    LET order == OrderBy(sortBy, sortDirection)
        ids == DOMAIN items
        all == {p \in [1..Cardinality(ids) -> ids] :
                    /\ \A i, j \in DOMAIN p : i # j => p[i] # p[j]
                    /\ Ordered([i \in DOMAIN p |-> items[p[i]]], order)}
    IN  {Window([i \in DOMAIN p |-> items[p[i]]], limit, offset) : p \in all}

\* SELECT COUNT(*) as total FROM items
countAll == Cardinality(DOMAIN items)

\* SELECT * FROM items WHERE id = ?
findById(id) == IF id \in DOMAIN items THEN Some(items[id]) ELSE None

\* Mutant: an absent description is stored as the empty string.
create_EmptyDescription(input) ==
    (nextId :> DefaultTimestamps([id |-> nextId, name |-> Get(input.name),
                                  description |-> IF IsSome(input.description)
                                                  THEN input.description
                                                  ELSE Some(""),
                                  created_at |-> 0, updated_at |-> 0]))
    @@ items

\* INSERT INTO items (name, description) VALUES (?, ?), with
\* [input.name, input.description ?? null]
create(input) ==
    (nextId :> DefaultTimestamps([id |-> nextId, name |-> Get(input.name),
                                  description |-> input.description,
                                  created_at |-> 0, updated_at |-> 0]))
    @@ items

\* Mutant: the SET list is never empty.
UpdateFields_NeverEmpty(patch) == <<"name", "description">>

\* The SET list update() builds: the fields present in the patch.
UpdateFields(patch) ==
    (IF IsSome(patch.name) THEN <<"name">> ELSE <<>>)
    \o (IF IsSome(patch.description) THEN <<"description">> ELSE <<>>)

\* Mutant: an empty string counts as an absent field.
update_EmptyAsAbsent(id, patch) ==
    IF id \in DOMAIN items
    THEN [items EXCEPT ![id] = OnUpdateTimestamp(@,
            [@ EXCEPT !.name = IF IsSome(patch.name) /\ Get(patch.name) # ""
                               THEN Get(patch.name) ELSE @,
                      !.description = IF IsSome(patch.description)
                                         /\ Get(patch.description) # ""
                                      THEN patch.description ELSE @])]
    ELSE items

\* Mutant: the UPDATE sets every column, an absent description to NULL.
update_AllColumns(id, patch) ==
    IF id \in DOMAIN items
    THEN [items EXCEPT ![id] = OnUpdateTimestamp(@,
            [@ EXCEPT !.name = IF IsSome(patch.name) THEN Get(patch.name) ELSE @,
                      !.description = patch.description])]
    ELSE items

\* UPDATE items SET <fields> WHERE id = ?
update(id, patch) ==
    IF id \in DOMAIN items
    THEN [items EXCEPT ![id] = OnUpdateTimestamp(@,
            [@ EXCEPT !.name = IF IsSome(patch.name) THEN Get(patch.name) ELSE @,
                      !.description = IF IsSome(patch.description)
                                      THEN patch.description ELSE @])]
    ELSE items

\* Mutant: the DELETE removes nothing.
remove_NoOp(id) == items

\* DELETE FROM items WHERE id = ?
remove(id) == [i \in DOMAIN items \ {id} |-> items[i]]

\* affectedRows of a statement with WHERE id = ?
AffectedRows(id) == IF id \in DOMAIN items THEN 1 ELSE 0

-----------------------------------------------------------------------------
(* services/itemService                                                    *)

\* Mutant: the requested limit is not capped.
PageLimit_NoMax(limit) ==
    IF IsSome(limit) THEN Get(limit) ELSE env.DEFAULT_PAGE_LIMIT

\* Math.min(limit ?? env.DEFAULT_PAGE_LIMIT, env.MAX_PAGE_LIMIT)
PageLimit(limit) ==
    Min(IF IsSome(limit) THEN Get(limit) ELSE env.DEFAULT_PAGE_LIMIT,
        env.MAX_PAGE_LIMIT)

\* page = 1 when undefined
PageOf(page) == IF IsSome(page) THEN Get(page) ELSE 1

\* (page - 1) * pageLimit
Offset(page, pageLimit) == (page - 1) * pageLimit

\* Mutant: the direction is compared without toUpperCase().
Direction_CaseSensitive(sortDirection) ==
    IF sortDirection = Some("ASC") THEN "ASC" ELSE "DESC"

\* sortDirection?.toUpperCase() === 'ASC' ? 'ASC' : 'DESC'
Direction(sortDirection) ==
    IF IsSome(sortDirection) /\ ToUpperCase(Get(sortDirection)) = "ASC"
    THEN "ASC" ELSE "DESC"

\* Mutant: Math.floor instead of Math.ceil.
TotalPages_Floor(total, pageLimit) == total \div pageLimit

\* Math.ceil(total / pageLimit)
TotalPages(total, pageLimit) == Ceil(total, pageLimit)

\* Mutant: getItem never throws.
getItem_NoCheck(id) == NoError

\* getItem: the error it throws, NoError when the row exists
getItem(id) ==
    IF IsSome(findById(id)) THEN NoError ELSE HttpError(404, "Item introuvable")

\* page ? Number(page) : undefined, in listItemsHandler
HandlerNumber(raw) ==
    IF IsSome(raw) /\ Get(raw) # "" THEN Some(ToNumber(Get(raw)).v) ELSE None

-----------------------------------------------------------------------------
(* Requests                                                                *)

\* The regions of a request as the client sends them.  extra is a field no
\* schema declares.
NoQuery ==
    [page |-> None, limit |-> None, sortBy |-> None, sortDirection |-> None,
     extra |-> None]
NoBody == [name |-> None, description |-> None, password |-> None, extra |-> None]
NoParams == [id |-> None]

\* A JavaScript value of a region: a string or a number.
Str(s) == [type |-> "string", s |-> s, n |-> 0]
Num(n) == [type |-> "number", s |-> "", n |-> n]

\* A region as Express hands it to the first middleware: every field that
\* is present is a string.
Raw(region) ==
    [f \in DOMAIN region |-> IF IsSome(region[f]) THEN Some(Str(Get(region[f])))
                             ELSE None]

\* z.coerce.number() on a field that is present
Coerce(raw) == IF IsSome(raw) THEN Some(Num(ToNumber(Get(raw)).v)) ELSE None

\* schema.parse(input) for an input the schema accepts: the declared fields
\* with their coercions; z.object() strips the fields it does not declare.
ParseListItemsQuery(query) ==
    [Raw(query) EXCEPT !.page = Coerce(query.page), !.limit = Coerce(query.limit),
                       !.extra = None]
ParseIdParam(params) == [id |-> Coerce(params.id)]
ParseItem(body) == [Raw(body) EXCEPT !.password = None, !.extra = None]
ParseLogin(body) ==
    [Raw(body) EXCEPT !.name = None, !.description = None, !.extra = None]

\* Object.assign(target, source): the fields of source overwrite those of
\* target, the other fields of target stay.
ObjectAssign(target, source) ==
    [f \in DOMAIN target |-> IF IsSome(source[f]) THEN source[f] ELSE target[f]]

\* Mutant: the body is enriched like the other regions.
validateBody_Assign(body, parsed) == ObjectAssign(Raw(body), parsed)

\* validateBody: req.body = schema.parse(req.body)
validateBody(body, parsed) == parsed

\* validateParams: Object.assign(req.params, parsed)
validateParams(params, parsed) == ObjectAssign(Raw(params), parsed)

\* validateQuery: Object.assign(req.query, parsed).  In Express 5 req.query
\* is a getter that parses the query string at each access: the assignment
\* lands on the object of that one access and the handler reads a new one.
validateQuery(query, parsed) == Raw(query)

\* An HTTP request, or (via = "service") a direct call of itemService.listItems
\* whose arguments are in args.
NoArgs == [page |-> None, limit |-> None, sortBy |-> None, sortDirection |-> None]

NoRequest ==
    [via |-> "http", route |-> "none", authorization |-> None, cookie |-> None,
     query |-> NoQuery, params |-> NoParams, body |-> NoBody, args |-> NoArgs]

NoOrder == [field |-> "", dir |-> ""]

IdleReq ==
    [pc |-> "idle", http |-> NoRequest, user |-> None,
     id |-> 0, args |-> NoArgs, pageLimit |-> 0, offset |-> 0, order |-> NoOrder,
     gotItems |-> FALSE, data |-> <<>>, seen |-> 0, gotTotal |-> FALSE, total |-> 0,
     statements |-> 0, mutations |-> 0, affectedRows |-> None,
     wroteAfter |-> {}, effects |-> <<>>, afterDelete |-> FALSE, found |-> FALSE, thrown |-> None,
     body |-> NoBody, query |-> NoQuery, params |-> NoParams,
     resp |-> BaseResponse]

Respond(r, resp) == [r EXCEPT !.pc = "done", !.resp = resp]

\* next(err), or a rejected handler: Express hands err to errorMiddleware.
Fail(r, err) ==
    Respond([r EXCEPT !.thrown = Some(err),
                      !.effects = errorMiddlewareEffects(err)],
            errorMiddleware(err))

\* Mutant: the validation middlewares let everything through.
RouteIssues_Skipped(http) == <<>>

\* The validation middlewares of a route, in the order routes/itemRoutes
\* mounts them; the first that throws ends the chain.
RouteIssues(http) ==
    CASE http.route = "list"   -> ListItemsQuerySchema(http.query)
      [] http.route = "get"    -> IdParamSchema(http.params)
      [] http.route = "create" -> CreateItemSchema(http.body)
      [] http.route = "update" ->
            IF IdParamSchema(http.params) # <<>> THEN IdParamSchema(http.params)
            ELSE UpdateItemSchema(http.body)
      [] http.route = "delete" -> IdParamSchema(http.params)
      [] OTHER -> <<>>

\* req.body, req.query and req.params as the handler of the route finds
\* them, once the validation middlewares of the route have all passed.
Validated(r, http) ==
    LET raw == [r EXCEPT !.body = Raw(http.body), !.query = Raw(http.query),
                         !.params = Raw(http.params)]
    IN  CASE http.route = "list" ->
                [raw EXCEPT !.query = validateQuery(http.query,
                                            ParseListItemsQuery(http.query))]
          [] http.route \in {"get", "delete"} ->
                [raw EXCEPT !.params = validateParams(http.params,
                                            ParseIdParam(http.params))]
          [] http.route = "create" ->
                [raw EXCEPT !.body = validateBody(http.body, ParseItem(http.body))]
          [] http.route = "update" ->
                [raw EXCEPT !.params = validateParams(http.params,
                                            ParseIdParam(http.params)),
                            !.body = validateBody(http.body, ParseItem(http.body))]
          [] http.route = "login" ->
                [raw EXCEPT !.body = validateBody(http.body, ParseLogin(http.body))]
          [] OTHER -> raw

\* The handler of a route up to its first statement: the arguments it
\* hands to the service.
StartHandler(r, http) ==
    LET id == IF IsSome(http.params.id) THEN ToNumber(Get(http.params.id)).v ELSE 0
        args == [page |-> HandlerNumber(http.query.page),
                 limit |-> HandlerNumber(http.query.limit),
                 sortBy |-> http.query.sortBy,
                 sortDirection |-> http.query.sortDirection]
    IN  CASE http.route = "list" ->
                [r EXCEPT !.pc = "list", !.args = args,
                          !.pageLimit = PageLimit(args.limit),
                          !.offset = Offset(PageOf(args.page), PageLimit(args.limit))]
          [] http.route = "create" -> [r EXCEPT !.pc = "create"]
          [] OTHER -> [r EXCEPT !.pc = "findById", !.id = id,
                                !.afterDelete = id \in deleted]

\* Mutant: authMiddleware guards the routes of itemRoutes only, not the
\* whole /api/items prefix.
Mount_RoutesOnly(route) ==
    CASE route \in {"list", "get", "create", "update", "delete"} -> "items"
      [] route \in {"login", "auth/unknown"} -> "auth"
      [] OTHER -> "none"

\* The router of routes/apiRoutes a path is mounted under: "items/unknown"
\* is a method and path under /api/items that itemRoutes does not define,
\* "auth/unknown" one under /api/auth that authRoutes does not define, and
\* any other route is outside both.
Mount(route) ==
    CASE route \in {"list", "get", "create", "update", "delete", "items/unknown"} ->
            "items"
      [] route \in {"login", "auth/unknown"} -> "auth"
      [] OTHER -> "none"

\* The last middleware of server.ts before errorMiddleware.
RouteNotFound == errorResponse(404, "Route introuvable", None)

\* Mutant: under /api/items the validation of the route runs before
\* authMiddleware.
Dispatch_ValidationFirst(http) ==
    LET auth == authMiddleware(http, now)
        r == [IdleReq EXCEPT !.http = http, !.user = auth.user]
        anonymous == [IdleReq EXCEPT !.http = http]
    IN  IF Mount(http.route) = "items"
        THEN IF RouteIssues(http) # <<>>
             THEN Fail(anonymous, ZodError(RouteIssues(http)))
             ELSE IF auth.outcome = "respond" THEN Respond(r, auth.resp)
             ELSE IF auth.outcome = "error" THEN Fail(r, auth.err)
             ELSE IF http.route = "items/unknown" THEN Respond(r, RouteNotFound)
             ELSE StartHandler(Validated(r, http), http)
        ELSE IF http.route = "login"
        THEN IF LoginSchema(http.body) # <<>>
             THEN Fail(anonymous, ZodError(LoginSchema(http.body)))
             ELSE [Validated(anonymous, http) EXCEPT !.pc = "compare"]
        ELSE Respond(anonymous, RouteNotFound)

\* apiRoutes: under /api/items authMiddleware, then the route's validation,
\* then the handler; under /api/auth the validation of the login body, then
\* loginHandler, which first awaits bcrypt.  errorMiddleware answers when one
\* of them fails, and a request no route matches reaches the 404 handler.
Dispatch(http) ==
    LET auth == authMiddleware(http, now)
        r == [IdleReq EXCEPT !.http = http, !.user = auth.user]
        anonymous == [IdleReq EXCEPT !.http = http]
    IN  IF Mount(http.route) = "items"
        THEN IF auth.outcome = "respond" THEN Respond(r, auth.resp)
             ELSE IF auth.outcome = "error" THEN Fail(r, auth.err)
             ELSE IF http.route = "items/unknown" THEN Respond(r, RouteNotFound)
             ELSE IF RouteIssues(http) # <<>>
             THEN Fail(r, ZodError(RouteIssues(http)))
             ELSE StartHandler(Validated(r, http), http)
        ELSE IF http.route = "login"
        THEN IF LoginSchema(http.body) # <<>>
             THEN Fail(anonymous, ZodError(LoginSchema(http.body)))
             ELSE [Validated(anonymous, http) EXCEPT !.pc = "compare"]
        ELSE Respond(anonymous, RouteNotFound)

\* A direct call listItems(page, limit, sortBy, sortDirection).
CallListItems(http) ==
    [IdleReq EXCEPT !.http = http, !.pc = "list", !.args = http.args,
                    !.pageLimit = PageLimit(http.args.limit),
                    !.offset = Offset(PageOf(http.args.page),
                                      PageLimit(http.args.limit))]

\* The process while it serves: the server listens, no signal has been
\* received, no timer is armed and the process has not exited.
Running ==
    [server |-> "listening", signals |-> {}, signalAt |-> None,
     timers |-> {}, exit |-> None]

Alive == proc.exit = None
Listening == Alive /\ proc.server = "listening"

\* mysql.createPool: no connection is in use and nothing waits.
PoolOpen == [state |-> "open", conns |-> {}, queue |-> <<>>]

\* The statements a request has sent to the pool and not yet had the result
\* of, in the order it sent them: listItems sends findAll and countAll
\* together, every other service function one statement at a time.
Pending(r) ==
    IF r.pc = "list"
    THEN (IF r.gotItems THEN <<>> ELSE <<"findAll">>)
         \o (IF r.gotTotal THEN <<>> ELSE <<"countAll">>)
    ELSE IF r.pc \in {"findById", "create", "update", "remove"} THEN <<r.pc>>
    ELSE <<>>

Range(q) == {q[i] : i \in DOMAIN q}

\* The statement of slot s holds a connection.
Holds(s, stmt) == <<s, stmt>> \in pool.conns

\* The statements in done have their results: their connections are
\* released, each to the statement that has waited longest, if any.
releaseConnection(p, done) ==
    LET keep(x) == x \notin done
        conns == p.conns \ done
        queue == SelectSeq(p.queue, keep)
        k == Min(env.DB_POOL_SIZE - Cardinality(conns), Len(queue))
    IN  [p EXCEPT !.conns = conns \cup {queue[i] : i \in 1..k},
                  !.queue = SubSeq(queue, k + 1, Len(queue))]

\* Mutant: the pool opens a connection for every statement.
getConnection_NoLimit(p, x) == [p EXCEPT !.conns = @ \cup {x}]

\* pool.execute asks for a connection: connectionLimit bounds the
\* connections, waitForConnections makes the statement wait when all are
\* in use, and queueLimit 0 puts no bound on the queue.
getConnection(p, x) ==
    IF Cardinality(p.conns) < env.DB_POOL_SIZE
    THEN [p EXCEPT !.conns = @ \cup {x}]
    ELSE [p EXCEPT !.queue = Append(@, x)]

RECURSIVE getConnections(_, _)
getConnections(p, q) ==
    IF q = <<>> THEN p
    ELSE getConnections(getConnection(p, Head(q)), Tail(q))

\* The pool after a step of the request of slot s: the statements whose
\* results it got release their connections, then those it sends ask for
\* theirs.
PoolStep(s) ==
    LET before == Range(Pending(req[s]))
        after == Pending(req'[s])
        new(stmt) == stmt \notin before
        sent == SelectSeq(after, new)
    IN  pool' = getConnections(
                    releaseConnection(pool,
                        {<<s, stmt>> : stmt \in before \ Range(after)}),
                    [i \in DOMAIN sent |-> <<s, sent[i]>>])

\* Slot s takes the request: Express runs it up to its first await.
Accept(s, http) ==
    /\ Listening
    /\ req[s].pc = "idle"
    /\ req' = [req EXCEPT ![s] = IF http.via = "service" THEN CallListItems(http)
                                 ELSE Dispatch(http)]

Receive(s, http) ==
    /\ Accept(s, http)
    /\ PoolStep(s)
    /\ UNCHANGED <<items, nextId, now, env, deleted, issued, client, proc>>

\* listItems returns once both reads have: the envelope of listItemsHandler.
ListResponse(r) ==
    IF r.gotItems /\ r.gotTotal
    THEN Respond(r, [successResponse(200) EXCEPT
            !.data = r.data,
            !.pagination = [total |-> r.total, page |-> PageOf(r.args.page),
                            limit |-> r.pageLimit,
                            totalPages |-> TotalPages(r.total, r.pageLimit)]])
    ELSE r

\* itemRepo.findAll(pageLimit, offset, sortBy, direction) reaches the store.
FindAllStep(s) ==
    /\ Alive
    /\ Holds(s, "findAll")
    /\ req[s].pc = "list"
    /\ ~req[s].gotItems
    /\ \E rows \in findAll(req[s].pageLimit, req[s].offset, req[s].args.sortBy,
                           Some(Direction(req[s].args.sortDirection))) :
          req' = [req EXCEPT ![s] = ListResponse(
                    [@ EXCEPT !.gotItems = TRUE, !.data = rows, !.seen = countAll,
                              !.statements = @ + 1,
                              !.order = OrderBy(req[s].args.sortBy,
                                  Some(Direction(req[s].args.sortDirection)))])]
    /\ PoolStep(s)
    /\ UNCHANGED <<items, nextId, now, env, deleted, issued, client, proc>>

\* itemRepo.countAll() reaches the store.
CountAllStep(s) ==
    /\ Alive
    /\ Holds(s, "countAll")
    /\ req[s].pc = "list"
    /\ ~req[s].gotTotal
    /\ req' = [req EXCEPT ![s] = ListResponse(
                    [@ EXCEPT !.gotTotal = TRUE, !.total = countAll,
                              !.statements = @ + 1])]
    /\ PoolStep(s)
    /\ UNCHANGED <<items, nextId, now, env, deleted, issued, client, proc>>

\* Mutant: whatever the route, the item that was found is deleted.
AfterGetItem_Removes(r) == [r EXCEPT !.pc = "remove"]

\* What follows getItem in getItemHandler, updateItem and deleteItem.  An
\* update whose patch has no field returns without a statement.
AfterGetItem(r) ==
    CASE r.http.route = "get" ->
            Respond(r, [successResponse(200) EXCEPT !.item = findById(r.id)])
      [] r.http.route = "update" ->
            IF UpdateFields(r.http.body) = <<>>
            THEN Respond([r EXCEPT !.affectedRows = Some(0)], successResponse(200))
            ELSE [r EXCEPT !.pc = "update"]
      [] OTHER -> [r EXCEPT !.pc = "remove"]

\* getItem's SELECT reaches the store.
FindByIdStep(s) ==
    /\ Alive
    /\ Holds(s, "findById")
    /\ req[s].pc = "findById"
    /\ LET r == [req[s] EXCEPT !.statements = @ + 1,
                               !.found = IsSome(findById(req[s].id))]
       IN  req' = [req EXCEPT ![s] =
                IF getItem(r.id).class # "none"
                THEN Fail(r, getItem(r.id))
                ELSE AfterGetItem(r)]
    /\ PoolStep(s)
    /\ UNCHANGED <<items, nextId, now, env, deleted, issued, client, proc>>

\* createItem's INSERT reaches the store.
CreateStep(s) ==
    /\ Alive
    /\ Holds(s, "create")
    /\ req[s].pc = "create"
    /\ items' = create(req[s].http.body)
    /\ nextId' = nextId + 1
    /\ req' = [req EXCEPT ![s] = Respond(
                    [@ EXCEPT !.statements = @ + 1, !.mutations = @ + 1],
                    [successResponse(201) EXCEPT !.id = Some(nextId)])]
    /\ PoolStep(s)
    /\ UNCHANGED <<now, env, deleted, issued, client, proc>>

\* The answered Updates of the other slots whose UPDATE of the same id the
\* store executed before the UPDATE of slot s (a record of the order of the
\* statements, which the program does not keep).
EarlierUpdates(s) ==
    {t \in Slots \ {s} :
        /\ req[t].pc = "done"
        /\ req[t].http.route = "update"
        /\ req[t].id = req[s].id
        /\ req[t].mutations > 0}

\* update's UPDATE reaches the store.
UpdateStep(s) ==
    /\ Alive
    /\ Holds(s, "update")
    /\ req[s].pc = "update"
    /\ items' = update(req[s].id, req[s].http.body)
    /\ req' = [req EXCEPT ![s] = Respond(
                    [@ EXCEPT !.statements = @ + 1, !.mutations = @ + 1,
                              !.affectedRows = Some(AffectedRows(req[s].id)),
                              !.wroteAfter = EarlierUpdates(s)],
                    successResponse(200))]
    /\ PoolStep(s)
    /\ UNCHANGED <<nextId, now, env, deleted, issued, client, proc>>

\* remove's DELETE reaches the store.
RemoveStep(s) ==
    /\ Alive
    /\ Holds(s, "remove")
    /\ req[s].pc = "remove"
    /\ items' = remove(req[s].id)
    /\ deleted' = deleted \cup {req[s].id}
    /\ req' = [req EXCEPT ![s] = Respond(
                    [@ EXCEPT !.statements = @ + 1, !.mutations = @ + 1,
                              !.affectedRows = Some(AffectedRows(req[s].id))],
                    successResponse(204))]
    /\ PoolStep(s)
    /\ UNCHANGED <<nextId, now, env, issued, client, proc>>

\* A service function or a store statement of the request in flight in slot
\* s rejects with err.
ThrowStep(s, err) ==
    /\ Alive
    /\ req[s].pc \notin {"idle", "done"}
    /\ req' = [req EXCEPT ![s] = Fail(@, err)]
    /\ PoolStep(s)
    /\ UNCHANGED <<items, nextId, now, env, deleted, issued, client, proc>>

\* The Set-Cookie of loginHandler.
AuthCookie(token) ==
    [name |-> "authToken", value |-> token, httpOnly |-> TRUE,
     secure |-> (env.NODE_ENV = "production"), sameSite |-> "strict",
     maxAge |-> env.JWT_EXPIRY * 1000]

\* loginHandler once bcrypt.compare has resolved.
LoginStep(s) ==
    /\ Alive
    /\ req[s].pc = "compare"
    /\ LET token == jwtSign([authenticated |-> TRUE, timestamp |-> now * 1000],
                            env.JWT_EXPIRY, now)
       IN  IF ~bcryptCompare(Get(req[s].http.body.password), env.PASSWORD_HASH)
           THEN /\ req' = [req EXCEPT ![s] = Respond(@,
                                errorResponse(401, "Mot de passe incorrect", None))]
                /\ issued' = issued
           ELSE /\ req' = [req EXCEPT ![s] = Respond(@,
                                [successResponse(200) EXCEPT
                                    !.token = Some(token),
                                    !.cookies = <<AuthCookie(token)>>])]
                /\ issued' = issued \cup {token}
    /\ UNCHANGED <<items, nextId, now, env, deleted, client, pool, proc>>

\* The response has been sent; the slot takes the next request.
Complete(s) ==
    /\ Alive
    /\ req[s].pc = "done"
    /\ req' = [req EXCEPT ![s] = IdleReq]
    /\ UNCHANGED <<items, nextId, now, env, deleted, issued, client, pool, proc>>

\* A second passes.
Tick ==
    /\ now < MaxClock
    /\ now' = now + 1
    /\ UNCHANGED <<items, nextId, env, req, deleted, issued, client, pool, proc>>

\* The delay of the timer of gracefulShutdown, in seconds.
SHUTDOWN_TIMEOUT == 10

\* Mutant: gracefulShutdown arms no timer.
ArmTimer_Never(timers) == timers

\* setTimeout(() => process.exit(1), 10_000)
ArmTimer(timers) == timers \cup {now + SHUTDOWN_TIMEOUT}

\* gracefulShutdown(signal): arm the timer, then server.close(callback); a
\* server that listens stops accepting.
gracefulShutdown(p, signal) ==
    [p EXCEPT !.signals = @ \cup {signal},
              !.signalAt = IF @ = None THEN Some(now) ELSE @,
              !.timers = ArmTimer(@),
              !.server = IF @ = "listening" THEN "closing" ELSE @]

\* The process receives SIGTERM or SIGINT.
SignalStep(signal) ==
    /\ Alive
    /\ now <= MaxClock
    /\ proc' = gracefulShutdown(proc, signal)
    /\ UNCHANGED <<items, nextId, now, env, req, deleted, issued, client, pool>>

\* The server emits 'close' once no request is in flight: the callback of
\* server.close calls pool.end().
ServerClosed ==
    /\ Alive
    /\ proc.server = "closing"
    /\ \A s \in Slots : req[s].pc \in {"idle", "done"}
    /\ proc' = [proc EXCEPT !.server = "closed"]
    /\ pool' = [pool EXCEPT !.state = "ending"]
    /\ UNCHANGED <<items, nextId, now, env, req, deleted, issued, client>>

\* pool.end() resolves: the callback logs and calls process.exit(0).
PoolEnded ==
    /\ Alive
    /\ pool.state = "ending"
    /\ pool' = [pool EXCEPT !.state = "ended"]
    /\ proc' = [proc EXCEPT !.exit = Some(0)]
    /\ UNCHANGED <<items, nextId, now, env, req, deleted, issued, client>>

\* A timer of gracefulShutdown fires: process.exit(1).  The pool goes with
\* the process, and so do the requests in flight.
Deadline ==
    /\ Alive
    /\ \E d \in proc.timers : now >= d
    /\ proc' = [proc EXCEPT !.exit = Some(1)]
    /\ pool' = [pool EXCEPT !.state = "destroyed"]
    /\ UNCHANGED <<items, nextId, now, env, req, deleted, issued, client>>

\* A second passes in the life of the process; a timer that is due fires
\* within its second.
TickDrain ==
    /\ Alive
    /\ now < MaxClock + SHUTDOWN_TIMEOUT
    /\ \A d \in proc.timers : now < d
    /\ now' = now + 1
    /\ UNCHANGED <<items, nextId, env, req, deleted, issued, client, pool, proc>>

-----------------------------------------------------------------------------
(* Configuration and clients                                               *)

\* The defaults of config/env.
DEFAULT_PAGE_LIMIT == 10
MAX_PAGE_LIMIT == 100
JWT_EXPIRY == 86400
DB_POOL_SIZE == 10

\* The password whose hash the deployment has in PASSWORD_HASH.
AdminPassword == "secret"

DefaultEnv ==
    [NODE_ENV |-> "development", DEFAULT_PAGE_LIMIT |-> DEFAULT_PAGE_LIMIT,
     MAX_PAGE_LIMIT |-> MAX_PAGE_LIMIT, JWT_EXPIRY |-> JWT_EXPIRY,
     PASSWORD_HASH |-> BcryptHash(AdminPassword),
     DB_POOL_SIZE |-> DB_POOL_SIZE]

\* The token of a logged-in client: signed, and not expired while the model runs.
ValidToken == Jwt(TRUE, 0, MaxClock + 1)

Authenticated(http) ==
    [http EXCEPT !.authorization = Some(Header("Bearer ", ValidToken))]

InitStore ==
    /\ items = <<>>
    /\ nextId = 1
    /\ now = 0
    /\ deleted = {}
    /\ issued = {}
    /\ client = 0
    /\ pool = PoolOpen
    /\ proc = Running
    /\ req = [s \in Slots |-> IdleReq]

-----------------------------------------------------------------------------
(* Spec: authenticated clients get, create, update and delete items        *)
(* concurrently.                                                           *)

IdStrings == {"1", "2"}

Patches ==
    {[NoBody EXCEPT !.name = n, !.description = d] :
        n \in {None, Some("b")}, d \in {None, Some("")}}

CrudRequests ==
    {Authenticated([NoRequest EXCEPT !.route = k, !.params = [id |-> Some(i)]]) :
        k \in {"get", "delete"}, i \in IdStrings}
    \cup {Authenticated([NoRequest EXCEPT !.route = "update",
                                          !.params = [id |-> Some(i)],
                                          !.body = p]) :
        i \in IdStrings, p \in Patches}
    \cup {Authenticated([NoRequest EXCEPT !.route = "create",
                            !.body = [NoBody EXCEPT !.name = Some("a"), !.description = None]])}

ReceiveCrud == \E s \in Slots, http \in CrudRequests : Receive(s, http)

FindById == \E s \in Slots : FindByIdStep(s)
Create == \E s \in Slots : nextId <= MaxId /\ CreateStep(s)
Update == \E s \in Slots : UpdateStep(s)
Remove == \E s \in Slots : RemoveStep(s)
Completed == \E s \in Slots : Complete(s)

Init == InitStore /\ env = DefaultEnv

Next ==
    \/ ReceiveCrud
    \/ FindById
    \/ Create
    \/ Update
    \/ Remove
    \/ Completed
    \/ Tick

Spec == Init /\ [][Next]_vars

-----------------------------------------------------------------------------
(* SpecAuth: clients with every kind of token ask for an item.             *)

Tokens ==
    {EmptyToken, Garbage}
    \cup {Jwt(sg, 0, e) : sg \in BOOLEAN, e \in 1..(MaxClock + 1)}

\* The HTTP parser delivers a header value without surrounding white space,
\* so a value that starts with 'Bearer ' has at least one character after it.
Authorizations ==
    {None}
    \cup {Some(Header(p, t)) : p \in {"Bearer ", "Basic ab"}, t \in Tokens \ {EmptyToken}}

Cookies == {None} \cup {Some(t) : t \in Tokens}

AuthRequests ==
    {[NoRequest EXCEPT !.route = "get", !.params = [id |-> Some("1")],
                       !.authorization = a, !.cookie = c] :
        a \in Authorizations, c \in Cookies}

ReceiveAuth == \E s \in Slots, http \in AuthRequests : Receive(s, http)

InitAuth ==
    /\ InitStore
    /\ env \in {[DefaultEnv EXCEPT !.NODE_ENV = m] : m \in {"development", "production"}}

NextAuth ==
    \/ ReceiveAuth
    \/ FindById
    \/ Completed
    \/ Tick

SpecAuth == InitAuth /\ [][NextAuth]_vars

-----------------------------------------------------------------------------
(* SpecSort: a client lists the items with every kind of sort parameter,   *)
(* over HTTP and by calling listItems directly, while another creates      *)
(* items.                                                                  *)

SortFields == {None, Some("id"), Some("name"), Some("1=1; DROP")}

SortDirections ==
    {None, Some("asc"), Some("ASC"), Some("Asc"), Some("desc"), Some("DESC"),
     Some("up")}

SortRequests ==
    {Authenticated([NoRequest EXCEPT !.route = "list",
                        !.query = [NoQuery EXCEPT !.sortBy = f, !.sortDirection = d]]) :
        f \in SortFields, d \in SortDirections}
    \cup {[NoRequest EXCEPT !.via = "service", !.route = "list",
                        !.args = [NoArgs EXCEPT !.sortBy = f, !.sortDirection = d]] :
        f \in SortFields, d \in SortDirections}

CreateRequests ==
    {Authenticated([NoRequest EXCEPT !.route = "create",
                        !.body = [NoBody EXCEPT !.name = Some(n), !.description = None]]) :
        n \in {"a", "b"}}

ReceiveSort == \E http \in SortRequests : Receive(1, http)
ReceiveCreate == \E http \in CreateRequests : Receive(2, http)
FindAll == \E s \in Slots : FindAllStep(s)
CountAll == \E s \in Slots : CountAllStep(s)
CreateRow == \E s \in Slots : nextId <= MaxRows /\ CreateStep(s)

NextSort ==
    \/ ReceiveSort
    \/ ReceiveCreate
    \/ FindAll
    \/ CountAll
    \/ CreateRow
    \/ Completed
    \/ Tick

SpecSort == Init /\ [][NextSort]_vars

-----------------------------------------------------------------------------
(* SpecList: a client pages through the items under every configuration    *)
(* of the page sizes while another creates and deletes items.  All of it   *)
(* happens within one second: the timestamps play no part in paging.       *)

PageStrings == {None, Some("1"), Some("2"), Some("3")}

PageRequests ==
    {Authenticated([NoRequest EXCEPT !.route = "list",
                        !.query = [NoQuery EXCEPT !.page = pg, !.limit = l]]) :
        pg \in PageStrings, l \in PageStrings}

WriteRequests ==
    {Authenticated([NoRequest EXCEPT !.route = "create",
                        !.body = [NoBody EXCEPT !.name = Some("a"), !.description = None]])}
    \cup {Authenticated([NoRequest EXCEPT !.route = "delete",
                                          !.params = [id |-> Some(i)]]) :
            i \in IdStrings}

ReceivePage == \E http \in PageRequests : Receive(1, http)
ReceiveWrite == \E http \in WriteRequests : Receive(2, http)

InitList ==
    /\ InitStore
    /\ env \in {[DefaultEnv EXCEPT !.DEFAULT_PAGE_LIMIT = d, !.MAX_PAGE_LIMIT = m] :
                    d \in 1..MaxPageCfg, m \in 1..MaxPageCfg}

NextList ==
    \/ ReceivePage
    \/ ReceiveWrite
    \/ FindAll
    \/ CountAll
    \/ FindById
    \/ CreateRow
    \/ Remove
    \/ Completed

SpecList == InitList /\ [][NextList]_vars

-----------------------------------------------------------------------------
(* SpecLogin: clients log in with every kind of password and present the   *)
(* tokens they were issued, in the header or in the cookie, to a protected *)
(* route while the clock advances past the lifetime of the tokens.         *)

Passwords == {None, Some(""), Some(AdminPassword), Some("wrong")}

LoginRequests ==
    {[NoRequest EXCEPT !.route = "login", !.body = [NoBody EXCEPT !.password = p]] :
        p \in Passwords}

\* The requests a client can make with the tokens issued so far.
IssuedRequests ==
    {[NoRequest EXCEPT !.route = "get", !.params = [id |-> Some("1")],
                       !.authorization = Some(Header("Bearer ", t))] : t \in issued}
    \cup {[NoRequest EXCEPT !.route = "get", !.params = [id |-> Some("1")],
                            !.cookie = Some(t)] : t \in issued}

ReceiveLogin == \E s \in Slots, http \in LoginRequests : Receive(s, http)
ReceiveIssued == \E s \in Slots, http \in IssuedRequests : Receive(s, http)
Login == \E s \in Slots : LoginStep(s)

InitLogin ==
    /\ InitStore
    /\ env \in {[DefaultEnv EXCEPT !.JWT_EXPIRY = l, !.NODE_ENV = m] :
                    l \in 1..MaxLife, m \in {"development", "production"}}

NextLogin ==
    \/ ReceiveLogin
    \/ ReceiveIssued
    \/ Login
    \/ FindById
    \/ Completed
    \/ Tick

SpecLogin == InitLogin /\ [][NextLogin]_vars

-----------------------------------------------------------------------------
(* SpecGate: clients send well-formed and malformed requests to every      *)
(* route, with no token, an unusable token, a token that expires while the *)
(* model runs, or a good one.                                              *)

GateTokens ==
    {<<None, None>>,
     <<Some(Header("Bearer ", Garbage)), None>>,
     <<None, Some(Jwt(FALSE, 0, MaxClock + 1))>>,
     <<Some(Header("Bearer ", Jwt(TRUE, 0, 1))), None>>,
     <<Some(Header("Bearer ", ValidToken)), None>>}

GateInputs ==
    {[NoRequest EXCEPT !.route = "list", !.query = [NoQuery EXCEPT !.limit = l]] :
        l \in {None, Some("0"), Some("abc")}}
    \cup {[NoRequest EXCEPT !.route = "list",
                            !.query = [NoQuery EXCEPT !.sortBy = Some("1=1; DROP")]]}
    \cup {[NoRequest EXCEPT !.route = k, !.params = [id |-> Some(i)]] :
            k \in {"get", "delete"}, i \in {"1", "abc", "-1"}}
    \cup {[NoRequest EXCEPT !.route = "create", !.body = [NoBody EXCEPT !.name = n]] :
            n \in {None, Some(""), Some("a")}}
    \cup {[NoRequest EXCEPT !.route = "update", !.params = [id |-> Some(i)],
                            !.body = [NoBody EXCEPT !.name = n]] :
            i \in {"1", "1.5"}, n \in {Some(""), Some("b")}}

GateRequests ==
    {[http EXCEPT !.authorization = t[1], !.cookie = t[2]] :
        http \in GateInputs, t \in GateTokens}
    \cup {[NoRequest EXCEPT !.route = "login", !.body = [NoBody EXCEPT !.password = p]] :
            p \in {None, Some(""), Some("wrong")}}

ReceiveGate == \E s \in Slots, http \in GateRequests : Receive(s, http)

NextGate ==
    \/ ReceiveGate
    \/ Login
    \/ FindAll
    \/ CountAll
    \/ FindById
    \/ Create
    \/ Update
    \/ Remove
    \/ Completed
    \/ Tick

SpecGate == Init /\ [][NextGate]_vars

-----------------------------------------------------------------------------
(* SpecErr: the requests of authenticated clients fail with every kind of  *)
(* error, in every runtime mode.                                           *)

Errors ==
    {HttpError(404, "Item introuvable"),
     HttpError(409, "Nom déjà utilisé"),
     HttpError(403, "Accès refusé"),
     ZodError(Issue("name", "too_small")),
     MkError("JsonWebTokenError", "jwt malformed"),
     MkError("TokenExpiredError", "jwt expired"),
     Error("Error", "connect ECONNREFUSED 127.0.0.1:3306", "at PromisePool.execute"),
     Error("Error", "You have an error in your SQL syntax near 'SELECT * FROM items'",
           "at findAll (itemRepository.ts:180)"),
     Error("TypeError", "", "at listItems (itemService.ts:44)"),
     [Error("SyntaxError", "Unexpected token", "at JSON.parse") EXCEPT
        !.statusCode = 400]}

ErrRequests ==
    {Authenticated([NoRequest EXCEPT !.route = "list"]),
     Authenticated([NoRequest EXCEPT !.route = "get", !.params = [id |-> Some("1")]]),
     Authenticated([NoRequest EXCEPT !.route = "create",
                                     !.body = [NoBody EXCEPT !.name = Some("a")]]),
     [NoRequest EXCEPT !.route = "login",
                       !.body = [NoBody EXCEPT !.password = Some(AdminPassword)]]}

ReceiveErr == \E s \in Slots, http \in ErrRequests : Receive(s, http)
Throw == \E s \in Slots, err \in Errors : ThrowStep(s, err)

InitErr ==
    /\ InitStore
    /\ env \in {[DefaultEnv EXCEPT !.NODE_ENV = m] :
                    m \in {"development", "production", "test"}}

NextErr ==
    \/ ReceiveErr
    \/ Throw
    \/ Login
    \/ FindAll
    \/ CountAll
    \/ FindById
    \/ Create
    \/ Completed

SpecErr == InitErr /\ [][NextErr]_vars

-----------------------------------------------------------------------------
(* SpecShape: authenticated clients send well-formed requests, with and    *)
(* without a field the schema of the route does not declare.               *)

Extras == {None, Some("x")}

ShapeRequests ==
    {Authenticated([NoRequest EXCEPT !.route = "list",
                        !.query = [NoQuery EXCEPT !.limit = l, !.sortBy = f,
                                                  !.extra = x]]) :
        l \in {None, Some("2")}, f \in {None, Some("name")}, x \in Extras}
    \cup {Authenticated([NoRequest EXCEPT !.route = "create",
                            !.body = [NoBody EXCEPT !.name = Some("a"),
                                                    !.description = d,
                                                    !.extra = x]]) :
            d \in {None, Some("d")}, x \in Extras}
    \cup {Authenticated([NoRequest EXCEPT !.route = "update",
                            !.params = [id |-> Some("1")],
                            !.body = [NoBody EXCEPT !.name = Some("b"),
                                                    !.extra = x]]) :
            x \in Extras}
    \cup {Authenticated([NoRequest EXCEPT !.route = "get",
                                          !.params = [id |-> Some("1")]])}
    \cup {[NoRequest EXCEPT !.route = "login",
                            !.body = [NoBody EXCEPT !.password = Some(AdminPassword),
                                                    !.extra = x]] :
            x \in Extras}

ReceiveShape == \E s \in Slots, http \in ShapeRequests : Receive(s, http)

NextShape ==
    \/ ReceiveShape
    \/ Login
    \/ FindAll
    \/ CountAll
    \/ FindById
    \/ Create
    \/ Update
    \/ Completed

SpecShape == Init /\ [][NextShape]_vars

-----------------------------------------------------------------------------
(* SpecSeq: one authenticated client, alone, creates an item, reads it,    *)
(* updates its description, reads it, deletes it and reads it again, each  *)
(* request sent once the previous one is answered.  Earlier items may have *)
(* been created and deleted before the client starts.                      *)

Scenario == <<"create", "get", "update", "get", "delete", "get">>

\* The k-th request of the client; id is the id its Create was answered.
ScenarioRequest(k, id) ==
    Authenticated(
        CASE Scenario[k] = "create" ->
                [NoRequest EXCEPT !.route = "create",
                                  !.body = [NoBody EXCEPT !.name = Some("a")]]
          [] Scenario[k] = "update" ->
                [NoRequest EXCEPT !.route = "update",
                                  !.params = [id |-> Some(ToString(id))],
                                  !.body = [NoBody EXCEPT !.description = Some("b")]]
          [] OTHER ->
                [NoRequest EXCEPT !.route = Scenario[k],
                                  !.params = [id |-> Some(ToString(id))]])

ReceiveSeq ==
    /\ client < Len(Scenario)
    /\ Accept(1, ScenarioRequest(client + 1, nextId - 1))
    /\ client' = client + 1
    /\ PoolStep(1)
    /\ UNCHANGED <<items, nextId, now, env, deleted, issued, proc>>

InitSeq ==
    /\ items = <<>>
    /\ nextId \in 1..MaxRows
    /\ deleted = 1..(nextId - 1)
    /\ now = 0
    /\ issued = {}
    /\ client = 0
    /\ pool = PoolOpen
    /\ proc = Running
    /\ req = [s \in Slots |-> IdleReq]
    /\ env \in {[DefaultEnv EXCEPT !.NODE_ENV = m] :
                    m \in {"development", "production", "test"}}

NextSeq ==
    \/ ReceiveSeq
    \/ FindById
    \/ CreateRow
    \/ Update
    \/ Remove
    \/ Completed
    \/ Tick

SpecSeq == InitSeq /\ [][NextSeq]_vars

-----------------------------------------------------------------------------
(* SpecRoute: clients with every kind of token ask for routes the          *)
(* application does not define, under /api/items, under /api/auth and      *)
(* elsewhere, and for an item.                                             *)

UnknownRoutes == {"items/unknown", "auth/unknown", "unknown"}

RouteRequests ==
    {[NoRequest EXCEPT !.route = k, !.authorization = t[1], !.cookie = t[2]] :
        k \in UnknownRoutes, t \in GateTokens}
    \cup {[NoRequest EXCEPT !.route = "get", !.params = [id |-> Some("1")],
                            !.authorization = t[1], !.cookie = t[2]] :
            t \in GateTokens}

ReceiveRoute == \E s \in Slots, http \in RouteRequests : Receive(s, http)

NextRoute ==
    \/ ReceiveRoute
    \/ FindById
    \/ Completed
    \/ Tick

SpecRoute == InitAuth /\ [][NextRoute]_vars

-----------------------------------------------------------------------------
(* SpecFrame: clients log in, rightly and wrongly, and read the items with *)
(* and without a usable token while authenticated clients create, update   *)
(* and delete items.  All of it happens within one second.                 *)

FrameTokens ==
    {<<None, None>>,
     <<Some(Header("Bearer ", Garbage)), None>>,
     <<None, Some(ValidToken)>>}

FrameRequests ==
    {[NoRequest EXCEPT !.route = "login", !.body = [NoBody EXCEPT !.password = p]] :
        p \in {Some("wrong"), Some(AdminPassword)}}
    \cup {[NoRequest EXCEPT !.route = "list",
                            !.authorization = t[1], !.cookie = t[2]] :
            t \in FrameTokens}
    \cup {[NoRequest EXCEPT !.route = "get", !.params = [id |-> Some("1")],
                            !.authorization = t[1], !.cookie = t[2]] :
            t \in FrameTokens}
    \cup {Authenticated([NoRequest EXCEPT !.route = "create",
                                          !.body = [NoBody EXCEPT !.name = Some("a")]]),
          Authenticated([NoRequest EXCEPT !.route = "update",
                                          !.params = [id |-> Some("1")],
                                          !.body = [NoBody EXCEPT !.name = Some("b")]]),
          Authenticated([NoRequest EXCEPT !.route = "delete",
                                          !.params = [id |-> Some("1")]])}

ReceiveFrame == \E s \in Slots, http \in FrameRequests : Receive(s, http)

NextFrame ==
    \/ ReceiveFrame
    \/ Login
    \/ FindAll
    \/ CountAll
    \/ FindById
    \/ CreateRow
    \/ Update
    \/ Remove
    \/ Completed

SpecFrame == Init /\ [][NextFrame]_vars

-----------------------------------------------------------------------------
(* SpecPatch: two authenticated clients update the one item of the table,  *)
(* each with its own values, concurrently.                                 *)

InitialRow ==
    [id |-> 1, name |-> "a", description |-> Some("z"),
     created_at |-> 0, updated_at |-> 0]

\* The patches of the client of slot s: the fields it gives carry values no
\* other client gives.
PatchesOf(s) ==
    {[NoBody EXCEPT !.name = n, !.description = d] :
        n \in {None, Some(IF s = 1 THEN "b" ELSE "c")},
        d \in {None, Some(IF s = 1 THEN "x" ELSE "")}}

PatchRequests(s) ==
    {Authenticated([NoRequest EXCEPT !.route = "update",
                                     !.params = [id |-> Some("1")],
                                     !.body = p]) : p \in PatchesOf(s)}

ReceivePatch == \E s \in Slots : \E http \in PatchRequests(s) : Receive(s, http)

InitPatch ==
    /\ items = (1 :> InitialRow)
    /\ nextId = 2
    /\ now = 0
    /\ deleted = {}
    /\ issued = {}
    /\ client = 0
    /\ pool = PoolOpen
    /\ proc = Running
    /\ req = [s \in Slots |-> IdleReq]
    /\ env = DefaultEnv

NextPatch ==
    \/ ReceivePatch
    \/ FindById
    \/ Update
    \/ Tick

SpecPatch == InitPatch /\ [][NextPatch]_vars

-----------------------------------------------------------------------------
(* SpecPool: authenticated clients list, read and update the one item of   *)
(* the table through a pool of one or more connections.  SpecPoolFair      *)
(* adds that the store answers every statement that has a connection.      *)

PoolRequests ==
    {Authenticated([NoRequest EXCEPT !.route = "list"]),
     Authenticated([NoRequest EXCEPT !.route = "get", !.params = [id |-> Some("1")]]),
     Authenticated([NoRequest EXCEPT !.route = "update",
                                     !.params = [id |-> Some("1")],
                                     !.body = [NoBody EXCEPT !.name = Some("b")]])}

ReceivePool == \E s \in Slots, http \in PoolRequests : Receive(s, http)

InitPool ==
    /\ items = (1 :> InitialRow)
    /\ nextId = 2
    /\ now = 0
    /\ deleted = {}
    /\ issued = {}
    /\ client = 0
    /\ pool = PoolOpen
    /\ proc = Running
    /\ req = [s \in Slots |-> IdleReq]
    /\ env \in {[DefaultEnv EXCEPT !.DB_POOL_SIZE = n] : n \in 1..MaxPool}

NextPool ==
    \/ ReceivePool
    \/ FindAll
    \/ CountAll
    \/ FindById
    \/ Update
    \/ Completed

SpecPool == InitPool /\ [][NextPool]_vars

\* The store completes the statement of a connection.
StoreAnswers ==
    \A s \in Slots :
        /\ WF_vars(FindAllStep(s))
        /\ WF_vars(CountAllStep(s))
        /\ WF_vars(FindByIdStep(s))
        /\ WF_vars(UpdateStep(s))

SpecPoolFair == SpecPool /\ StoreAnswers

-----------------------------------------------------------------------------
(* SpecDrain: authenticated clients read and update the one item of the    *)
(* table while the process receives termination signals.  SpecDrainFair    *)
(* adds that time passes and that a timer that is due fires.               *)

DrainRequests ==
    {Authenticated([NoRequest EXCEPT !.route = "get", !.params = [id |-> Some("1")]]),
     Authenticated([NoRequest EXCEPT !.route = "update",
                                     !.params = [id |-> Some("1")],
                                     !.body = [NoBody EXCEPT !.name = Some("b")]])}

ReceiveDrain == \E s \in Slots, http \in DrainRequests : Receive(s, http)

Signal == \E signal \in {"SIGTERM", "SIGINT"} : SignalStep(signal)

InitDrain ==
    /\ items = (1 :> InitialRow)
    /\ nextId = 2
    /\ now = 0
    /\ deleted = {}
    /\ issued = {}
    /\ client = 0
    /\ pool = PoolOpen
    /\ proc = Running
    /\ req = [s \in Slots |-> IdleReq]
    /\ env = DefaultEnv

NextDrain ==
    \/ ReceiveDrain
    \/ FindById
    \/ Update
    \/ Completed
    \/ Signal
    \/ ServerClosed
    \/ PoolEnded
    \/ Deadline
    \/ TickDrain

SpecDrain == InitDrain /\ [][NextDrain]_vars

SpecDrainFair == SpecDrain /\ WF_vars(TickDrain) /\ WF_vars(Deadline)

-----------------------------------------------------------------------------
(* Properties                                                              *)

Done(s) == req[s].pc = "done"

\* The step in which slot s takes a request and Express runs its middlewares.
Received(s) == req[s].pc = "idle" /\ req'[s].pc # "idle"

\* The token authMiddleware verifies is a JWT signed with the secret whose
\* expiry second has been reached.
ExpiredToken(http, t) ==
    /\ Truthy(ExtractToken(http))
    /\ Get(ExtractToken(http)).kind = "jwt"
    /\ Get(ExtractToken(http)).signed
    /\ t >= Get(ExtractToken(http)).exp

\* The token authMiddleware verifies is a JWT whose signature does not match.
TamperedToken(http) ==
    /\ Truthy(ExtractToken(http))
    /\ Get(ExtractToken(http)).kind = "jwt"
    /\ ~Get(ExtractToken(http)).signed

\* C1: a protected request with a correctly signed but expired token is
\* answered 401 'Token expiré', and a request with a tampered token is
\* answered 401 'Token invalide'.
C1_ExpiredMessage ==
    [][\A s \in Slots :
        Received(s) /\ req'[s].http.via = "http" =>
            /\ ExpiredToken(req'[s].http, now) =>
                  /\ req'[s].resp.status = 401
                  /\ req'[s].resp.error = Some("Token expiré")
            /\ TamperedToken(req'[s].http) =>
                  /\ req'[s].resp.status = 401
                  /\ req'[s].resp.error = Some("Token invalide")]_vars

\* C10: when a request carries a Bearer-scheme Authorization header and an
\* authToken cookie, the verification of the header's token alone decides
\* the outcome: the request goes on with that token's payload attached, or
\* is answered with the error of that token's verification.
C10_HeaderWins ==
    [][\A s \in Slots :
        (/\ Received(s)
         /\ req'[s].http.via = "http"
         /\ IsSome(BearerToken(req'[s].http.authorization))
         /\ IsSome(req'[s].http.cookie)) =>
            LET header == Get(BearerToken(req'[s].http.authorization))
                err == jwtVerify(header, now)
            IN  IF err.class = "none"
                THEN /\ req'[s].pc # "done"
                     /\ req'[s].user = Some([authenticated |-> TRUE,
                                             timestamp |-> header.timestamp])
                ELSE /\ req'[s].pc = "done"
                     /\ req'[s].user = None
                     /\ req'[s].resp = errorMiddleware(err)]_vars

\* C10 witness: a request whose header token is not a JWT was refused although
\* its cookie held a signed token that never expires in the model.
C10_Witness ==
    \E s \in Slots :
        /\ Done(s)
        /\ req[s].http.authorization = Some(Header("Bearer ", Garbage))
        /\ req[s].http.cookie = Some(ValidToken)
        /\ req[s].resp.status = 401
        /\ req[s].user = None

-----------------------------------------------------------------------------
(* Listing *)

Whitelist == {"id", "name", "created_at", "updated_at"}

AscCasings == {"asc", "asC", "aSc", "aSC", "Asc", "AsC", "ASc", "ASC"}

OffWhitelist(sortBy) == IsSome(sortBy) /\ Get(sortBy) \notin Whitelist

\* The direction asked for is a casing of 'asc'.
AsksAscending(sortDirection) ==
    IsSome(sortDirection) /\ Get(sortDirection) \in AscCasings

ListDone(s) == Done(s) /\ req[s].http.route = "list"

\* C2 as stated: an authenticated GET of the listing with a sortBy outside
\* the whitelist succeeds and is ordered by created_at like a request
\* without sortBy.
C2_Original ==
    \A s \in Slots :
        (/\ ListDone(s)
         /\ req[s].http.via = "http"
         /\ OffWhitelist(req[s].http.query.sortBy)) =>
            /\ req[s].resp.status = 200
            /\ req[s].resp.success
            /\ req[s].order.field = "created_at"

\* C2 amended: over HTTP a sortBy outside the whitelist is refused with 400
\* by the validation of the query and no statement reaches the store; a
\* call of listItems with such a sortBy does not fail and issues the
\* ORDER BY of a call without sortBy: created_at, in the same direction.
C2_SortByFallback ==
    \A s \in Slots :
        ListDone(s) =>
            /\ (req[s].http.via = "http" /\ OffWhitelist(req[s].http.query.sortBy)) =>
                  /\ req[s].resp.status = 400
                  /\ ~req[s].resp.success
                  /\ req[s].resp.error = Some("Données invalides")
                  /\ \E i \in 1..Len(Get(req[s].resp.details)) :
                        Get(req[s].resp.details)[i].path = "sortBy"
                  /\ req[s].statements = 0
            /\ (/\ req[s].http.via = "service"
                /\ (OffWhitelist(req[s].args.sortBy) \/ req[s].args.sortBy = None)) =>
                  /\ req[s].resp.status = 200
                  /\ req[s].resp.success
                  /\ req[s].order.field = "created_at"
                  /\ req[s].order.dir =
                        (IF AsksAscending(req[s].args.sortDirection)
                         THEN "ASC" ELSE "DESC")
                  /\ \A i, j \in 1..Len(req[s].resp.data) :
                        i < j => IF AsksAscending(req[s].args.sortDirection)
                                 THEN req[s].resp.data[i].created_at
                                        <= req[s].resp.data[j].created_at
                                 ELSE req[s].resp.data[i].created_at
                                        >= req[s].resp.data[j].created_at

\* C2 witness: a call of listItems with sortBy '1=1; DROP' returned two rows
\* created in different seconds.
C2_Witness ==
    \E s \in Slots :
        /\ ListDone(s)
        /\ req[s].http.via = "service"
        /\ req[s].args.sortBy = Some("1=1; DROP")
        /\ Len(req[s].resp.data) = 2
        /\ req[s].resp.data[1].created_at > req[s].resp.data[2].created_at

\* C3 as stated: every casing of 'asc' yields ascending order, anything else
\* descending order, and no sortDirection makes the listing fail.
C3_Original ==
    \A s \in Slots :
        (ListDone(s) /\ ~OffWhitelist(req[s].http.query.sortBy)) =>
            /\ req[s].resp.success
            /\ req[s].order.dir =
                  (IF AsksAscending(IF req[s].http.via = "http"
                                    THEN req[s].http.query.sortDirection
                                    ELSE req[s].args.sortDirection)
                   THEN "ASC" ELSE "DESC")

\* C3 amended: listItems never fails on its sortDirection and orders
\* ascending for every casing of 'asc' and descending for any other value
\* or none; over HTTP only 'asc', 'desc' or no sortDirection is accepted
\* (ascending for 'asc', descending otherwise) and any other value,
\* 'ASC' included, is refused with 400.
C3_SortDirection ==
    \A s \in Slots :
        ListDone(s) =>
            /\ req[s].http.via = "service" =>
                  /\ req[s].resp.success
                  /\ req[s].order.dir =
                        (IF AsksAscending(req[s].args.sortDirection)
                         THEN "ASC" ELSE "DESC")
            /\ (/\ req[s].http.via = "http"
                /\ req[s].http.query.sortDirection
                      \notin {None, Some("asc"), Some("desc")}) =>
                  /\ req[s].resp.status = 400
                  /\ req[s].statements = 0
            /\ (/\ req[s].http.via = "http"
                /\ req[s].http.query.sortDirection \in {None, Some("asc"), Some("desc")}
                /\ ~OffWhitelist(req[s].http.query.sortBy)) =>
                  /\ req[s].resp.success
                  /\ req[s].order.dir =
                        (IF req[s].http.query.sortDirection = Some("asc")
                         THEN "ASC" ELSE "DESC")
            /\ req[s].resp.success =>
                  \A i, j \in 1..Len(req[s].resp.data) :
                     i < j => IF req[s].order.dir = "ASC"
                              THEN SortKey(req[s].resp.data[i], req[s].order.field)
                                   <= SortKey(req[s].resp.data[j], req[s].order.field)
                              ELSE SortKey(req[s].resp.data[i], req[s].order.field)
                                   >= SortKey(req[s].resp.data[j], req[s].order.field)

\* C3 witness: a call of listItems with sortDirection 'Asc' and sortBy name
\* returned item "a" before item "b".
C3_Witness ==
    \E s \in Slots :
        /\ ListDone(s)
        /\ req[s].args.sortDirection = Some("Asc")
        /\ req[s].args.sortBy = Some("name")
        /\ Len(req[s].resp.data) = 2
        /\ req[s].resp.data[1].name = "a"
        /\ req[s].resp.data[2].name = "b"

\* The page and the limit a listing request of SpecList asks for.
AskedPage(http) ==
    IF IsSome(http.query.page) THEN ToNumber(Get(http.query.page)).v ELSE 1

AskedLimit(http) ==
    IF IsSome(http.query.limit) THEN ToNumber(Get(http.query.limit)).v
    ELSE env.DEFAULT_PAGE_LIMIT

EffectiveLimit(http) ==
    IF AskedLimit(http) <= env.MAX_PAGE_LIMIT THEN AskedLimit(http)
    ELSE env.MAX_PAGE_LIMIT

\* C4: the effective limit of a List is min(limit or the default, the
\* maximum), the offset given to the store is (page - 1) * effective limit,
\* the envelope's limit is the effective limit, and at most that many rows
\* are returned, whatever other requests create or delete meanwhile.
C4_EffectiveLimit ==
    \A s \in Slots :
        (req[s].http.route = "list" /\ req[s].pc \in {"list", "done"}) =>
            /\ req[s].pageLimit = EffectiveLimit(req[s].http)
            /\ req[s].pageLimit <= env.MAX_PAGE_LIMIT
            /\ req[s].offset = (AskedPage(req[s].http) - 1) * EffectiveLimit(req[s].http)
            /\ Len(req[s].data) <= EffectiveLimit(req[s].http)
            /\ Done(s) =>
                  /\ req[s].resp.status = 200
                  /\ req[s].resp.pagination.limit = EffectiveLimit(req[s].http)
                  /\ req[s].resp.pagination.page = AskedPage(req[s].http)
                  /\ Len(req[s].resp.data) <= EffectiveLimit(req[s].http)

\* C4 witness: a request for page 2 with limit 3 was capped to a smaller
\* limit and returned a full page while an item was being created.
C4_Witness ==
    \E s \in Slots :
        /\ ListDone(s)
        /\ req[s].http.query.limit = Some("3")
        /\ req[s].http.query.page = Some("2")
        /\ req[s].resp.pagination.limit < 3
        /\ Len(req[s].resp.data) = req[s].resp.pagination.limit
        /\ \E w \in Slots : req[w].pc = "create"

\* totalPages = ceil(total / limit)
CeilOf(totalPages, total, limit) ==
    /\ (totalPages - 1) * limit < total
    /\ total <= totalPages * limit

\* C5 as stated: totalPages = ceil(total / limit), 0 when total = 0, and a
\* page beyond totalPages always has an empty data list.
C5_Original ==
    \A s \in Slots :
        ListDone(s) =>
            /\ req[s].resp.status = 200
            /\ CeilOf(req[s].resp.pagination.totalPages,
                      req[s].resp.pagination.total, req[s].resp.pagination.limit)
            /\ req[s].resp.pagination.page > req[s].resp.pagination.totalPages
                  => req[s].resp.data = <<>>

\* C5 amended: totalPages = ceil(total / limit), 0 when total = 0, always;
\* a page beyond totalPages has an empty data list, with the page echoed
\* and no error, when the page read and the count read saw the same number
\* of records (a create or delete between the two reads can leave rows in
\* a page that lies beyond totalPages).
C5_TotalPages ==
    \A s \in Slots :
        ListDone(s) =>
            /\ req[s].resp.status = 200
            /\ req[s].resp.success
            /\ CeilOf(req[s].resp.pagination.totalPages,
                      req[s].resp.pagination.total, req[s].resp.pagination.limit)
            /\ req[s].resp.pagination.total = 0
                  => req[s].resp.pagination.totalPages = 0
            /\ req[s].resp.pagination.page = AskedPage(req[s].http)
            /\ (/\ req[s].seen = req[s].resp.pagination.total
                /\ req[s].resp.pagination.page > req[s].resp.pagination.totalPages)
                  => req[s].resp.data = <<>>

\* C5 witness: page 3 of two records with limit 1 came back empty with
\* totalPages 2.
C5_Witness ==
    \E s \in Slots :
        /\ ListDone(s)
        /\ req[s].resp.pagination.page = 3
        /\ req[s].resp.pagination.total = 2
        /\ req[s].resp.pagination.totalPages = 2
        /\ req[s].seen = 2
        /\ req[s].resp.data = <<>>

-----------------------------------------------------------------------------
(* Update and delete *)

NotFound(resp) ==
    /\ resp.status = 404
    /\ ~resp.success
    /\ resp.error = Some("Item introuvable")

\* C6: a Delete of an id answers NotFound when the id has no record and
\* otherwise removes the record and answers 204; a Delete issued after a
\* Delete of the same id succeeded, or for an id that never existed,
\* answers NotFound.
C6_DeleteNotFound ==
    \A s \in Slots :
        (Done(s) /\ req[s].http.route = "delete") =>
            /\ IF req[s].found
               THEN /\ req[s].resp.status = 204
                    /\ req[s].id \notin DOMAIN items
                    /\ req[s].id \in deleted
               ELSE NotFound(req[s].resp) /\ req[s].mutations = 0
            /\ req[s].afterDelete => NotFound(req[s].resp)
            /\ req[s].id >= nextId => NotFound(req[s].resp)

\* C6 witness: a Delete issued after a successful Delete of the same id was
\* answered NotFound.
C6_Witness ==
    \E s \in Slots :
        /\ Done(s)
        /\ req[s].http.route = "delete"
        /\ req[s].afterDelete
        /\ req[s].id \in deleted
        /\ NotFound(req[s].resp)

\* C7: an Update of an id that has no record answers NotFound whatever the
\* patch, and issues no mutation statement.
C7_UpdateNotFound ==
    \A s \in Slots :
        (req[s].http.route = "update" /\ req[s].pc \in {"update", "done"}) =>
            /\ ~req[s].found =>
                  /\ Done(s)
                  /\ NotFound(req[s].resp)
                  /\ req[s].mutations = 0
            /\ (req[s].afterDelete \/ req[s].id >= nextId) => ~req[s].found

\* C7 witness: an Update with an empty patch of an id that never had a
\* record, and one with a full patch of a deleted id, were answered NotFound.
C7_Witness ==
    /\ \E s \in Slots :
        /\ Done(s)
        /\ req[s].http.route = "update"
        /\ req[s].http.body = NoBody
        /\ req[s].id >= nextId
        /\ NotFound(req[s].resp)
    /\ \E s \in Slots :
        /\ Done(s)
        /\ req[s].http.route = "update"
        /\ req[s].http.body = [NoBody EXCEPT !.name = Some("b"), !.description = Some("")]
        /\ req[s].afterDelete
        /\ NotFound(req[s].resp)

\* C8: an Update with an empty patch of an existing id answers success with
\* zero affected rows, issues no mutation statement, and leaves the table,
\* modification times included, as it was.
C8_EmptyPatch ==
    [][\A s \in Slots :
        (/\ req[s].http.route = "update"
         /\ req[s].http.body = NoBody
         /\ req[s].pc = "findById"
         /\ req'[s] # req[s]
         /\ req[s].id \in DOMAIN items) =>
            /\ req'[s].pc = "done"
            /\ req'[s].resp.status = 200
            /\ req'[s].resp.success
            /\ req'[s].affectedRows = Some(0)
            /\ req'[s].mutations = 0
            /\ items' = items]_vars

\* C8 witness: an Update with an empty patch was answered 200 with zero
\* affected rows while its record existed.
C8_Witness ==
    \E s \in Slots :
        /\ Done(s)
        /\ req[s].http.route = "update"
        /\ req[s].http.body = NoBody
        /\ req[s].resp.status = 200
        /\ req[s].affectedRows = Some(0)
        /\ req[s].id \in DOMAIN items

\* C9: the UPDATE of an Update on an existing record writes each field
\* present in the patch with the given value, the empty string included,
\* and keeps the stored value of each absent field; no other record changes.
C9_PresentFields ==
    [][\A s \in Slots :
        (req[s].pc = "update" /\ req'[s].pc = "done" /\ req[s].id \in DOMAIN items) =>
            LET patch == req[s].http.body
                old == items[req[s].id]
            IN  /\ req[s].id \in DOMAIN items'
                /\ items'[req[s].id].name =
                      (IF patch.name = None THEN old.name ELSE patch.name[1])
                /\ items'[req[s].id].description =
                      (IF patch.description = None THEN old.description
                       ELSE patch.description)
                /\ items'[req[s].id].id = old.id
                /\ items'[req[s].id].created_at = old.created_at
                /\ \A i \in DOMAIN items \ {req[s].id} :
                      i \in DOMAIN items' /\ items'[i] = items[i]]_vars

\* C9 witness: an Update with only an empty description was answered 200
\* and the record holds the empty description and its name "a".
C9_Witness ==
    \E s \in Slots :
        /\ Done(s)
        /\ req[s].http.route = "update"
        /\ req[s].http.body = [NoBody EXCEPT !.name = None, !.description = Some("")]
        /\ req[s].mutations = 1
        /\ req[s].id \in DOMAIN items
        /\ items[req[s].id].description = Some("")
        /\ items[req[s].id].name = "a"

-----------------------------------------------------------------------------
(* Verify: the four token states                                           *)

\* The token a request presents: the one of a Bearer Authorization header,
\* otherwise the one of the authToken cookie; None when neither has one.
Presented(http) ==
    IF IsSome(http.authorization) /\ Get(http.authorization).prefix = "Bearer "
       /\ Get(http.authorization).rest.kind # "empty"
    THEN Some(Get(http.authorization).rest)
    ELSE IF IsSome(http.cookie) /\ Get(http.cookie).kind # "empty"
    THEN http.cookie
    ELSE None

\* The state of the presented token at second t.
TokenState(http, t) ==
    LET tok == Presented(http) IN
    IF ~IsSome(tok) THEN "Missing"
    ELSE IF Get(tok).kind # "jwt" \/ ~Get(tok).signed THEN "Invalid"
    ELSE IF t >= Get(tok).exp THEN "Expired"
    ELSE "Authenticated"

\* The request was answered by the authentication boundary: nothing was
\* attached to it and no statement was issued for it.
Refused401(r) ==
    /\ r.pc = "done"
    /\ r.resp.status = 401
    /\ ~r.resp.success
    /\ r.user = None
    /\ r.statements = 0

\* What authMiddleware itself does with each token state: Missing is
\* answered 401 with the fixed message and no details; Invalid and Expired
\* are passed to the error boundary, as a JsonWebTokenError and as a
\* TokenExpiredError, and answered 401; Authenticated attaches
\* {authenticated, timestamp} of the token to the request, and only then
\* does the request proceed to its handler.
AuthMiddlewareOutcomes ==
    [][\A s \in Slots :
        Received(s) /\ req'[s].http.via = "http" =>
            LET http == req'[s].http
                state == TokenState(http, now)
                auth == authMiddleware(http, now)
            IN  /\ state = "Missing" =>
                    /\ auth.outcome = "respond"
                    /\ Refused401(req'[s])
                    /\ req'[s].resp.error = Some("Token d'authentification manquant")
                    /\ req'[s].resp.details = None
                /\ state = "Invalid" =>
                    /\ auth.outcome = "error"
                    /\ auth.err.class = "JsonWebTokenError"
                    /\ Refused401(req'[s])
                /\ state = "Expired" =>
                    /\ auth.outcome = "error"
                    /\ auth.err.class = "TokenExpiredError"
                    /\ Refused401(req'[s])
                /\ state = "Authenticated" =>
                    /\ auth.outcome = "next"
                    /\ req'[s].pc = "findById"
                    /\ req'[s].user =
                          Some([authenticated |-> TRUE,
                                timestamp |-> Get(Presented(http)).timestamp])
                /\ req'[s].pc # "done" => state = "Authenticated"]_vars

\* The outcome a client is given: the request proceeds, or it is answered
\* with the message of one of the three token failures.
OutcomeOf(r) ==
    IF r.pc # "done" THEN "Authenticated"
    ELSE CASE r.resp.error = Some("Token d'authentification manquant") -> "Missing"
           [] r.resp.error = Some("Token invalide") -> "Invalid"
           [] r.resp.error = Some("Token expiré") -> "Expired"
           [] OTHER -> "other"

\* C11: every request to a protected route is given exactly the outcome of
\* the state of its token: Missing (401, the fixed message, no details),
\* Invalid (401), Expired (401) or Authenticated, the last with
\* {authenticated, timestamp} of the token attached to the request; only an
\* Authenticated request proceeds.
C11_FourOutcomes ==
    [][\A s \in Slots :
        Received(s) /\ req'[s].http.via = "http" =>
            LET http == req'[s].http
                state == TokenState(http, now)
            IN  /\ OutcomeOf(req'[s]) = state
                /\ state # "Authenticated" => Refused401(req'[s])
                /\ state = "Missing" => req'[s].resp.details = None
                /\ state = "Authenticated" =>
                      req'[s].user =
                          Some([authenticated |-> TRUE,
                                timestamp |-> Get(Presented(http)).timestamp])]_vars

-----
(* Login                                                                   *)

\* The step in which loginHandler answers the request of slot s.
LoginAnswered(s) == req[s].pc = "compare" /\ req'[s].pc = "done"

NoCookieNoToken(resp) == resp.cookies = <<>> /\ resp.token = None

\* C12: a login whose password is not the configured one is answered 401
\* with the error envelope, sets no cookie and signs no token; a login with
\* the configured password is answered 200 and sets exactly one cookie,
\* authToken with HttpOnly, whose value is the token of the JSON body, a
\* token signed in this step.  A login refused by the validation of its
\* body sets no cookie and signs no token either.
C12_Login ==
    [][\A s \in Slots :
        /\ LoginAnswered(s) =>
              LET resp == req'[s].resp IN
              IF req[s].http.body.password # Some(AdminPassword)
              THEN /\ resp.status = 401
                   /\ ~resp.success
                   /\ IsSome(resp.error)
                   /\ NoCookieNoToken(resp)
                   /\ issued' = issued
              ELSE /\ resp.status = 200
                   /\ resp.success
                   /\ Len(resp.cookies) = 1
                   /\ resp.cookies[1].name = "authToken"
                   /\ resp.cookies[1].httpOnly
                   /\ resp.token = Some(resp.cookies[1].value)
                   /\ issued' = issued \cup {resp.cookies[1].value}
        /\ (Received(s) /\ req'[s].http.route = "login" /\ req'[s].pc = "done") =>
              /\ req'[s].resp.status = 400
              /\ NoCookieNoToken(req'[s].resp)
              /\ issued' = issued]_vars

\* A wrong password has been answered 401 and the configured one 200 with
\* its cookie.
C12_Witness ==
    /\ Done(1)
    /\ req[1].http.body.password = Some("wrong")
    /\ req[1].resp.status = 401
    /\ Done(2)
    /\ req[2].http.body.password = Some(AdminPassword)
    /\ req[2].resp.status = 200
    /\ Len(req[2].resp.cookies) = 1
    /\ req[2].resp.token = Some(req[2].resp.cookies[1].value)

-----------------------------------------------------------------------------
(* The boundary                                                            *)

\* The input of a request is refused by the shape of its route.
Malformed(http) ==
    CASE http.route = "list" ->
            \/ (IsSome(http.query.limit) /\ Get(http.query.limit) \notin {"1", "2", "3"})
            \/ (IsSome(http.query.page) /\ Get(http.query.page) \notin {"1", "2", "3"})
            \/ OffWhitelist(http.query.sortBy)
            \/ (IsSome(http.query.sortDirection)
                    /\ Get(http.query.sortDirection) \notin {"asc", "desc"})
      [] http.route \in {"get", "delete"} ->
            http.params.id \notin {Some("1"), Some("2"), Some("3")}
      [] http.route = "update" ->
            \/ http.params.id \notin {Some("1"), Some("2"), Some("3")}
            \/ http.body.name = Some("")
      [] http.route = "create" -> http.body.name \in {None, Some("")}
      [] http.route = "login" -> http.body.password \in {None, Some("")}
      [] OTHER -> FALSE

\* The request fails at the boundary when received at second t.
FailsBoundary(http, t) ==
    \/ Malformed(http)
    \/ (http.route # "login" /\ TokenState(http, t) # "Authenticated")

\* C13: a request that fails the validation of its body, query or path
\* parameters, or whose token is Missing, Invalid or Expired, is answered in
\* the step that receives it, with no statement issued and the table as it
\* was; and once a request is answered nothing more is executed for it.
C13_NoOperation ==
    [][\A s \in Slots :
        /\ (Received(s) /\ req'[s].http.via = "http"
                /\ FailsBoundary(req'[s].http, now)) =>
              /\ req'[s].pc = "done"
              /\ req'[s].resp.status \in {400, 401}
              /\ req'[s].statements = 0
              /\ req'[s].mutations = 0
              /\ items' = items
              /\ nextId' = nextId
              /\ issued' = issued
        /\ Done(s) => (req'[s] = req[s] \/ req'[s] = IdleReq)]_vars

\* A malformed request with a good token and a well-formed request with an
\* expired token have both been refused without a statement.
C13_Witness ==
    /\ Done(1)
    /\ Malformed(req[1].http)
    /\ req[1].http.route = "update"
    /\ req[1].http.authorization = Some(Header("Bearer ", ValidToken))
    /\ req[1].resp.status = 400
    /\ req[1].statements = 0
    /\ Done(2)
    /\ ~Malformed(req[2].http)
    /\ req[2].http.route = "delete"
    /\ TokenState(req[2].http, now) = "Expired"
    /\ req[2].resp.status = 401
    /\ req[2].statements = 0

-----------------------------------------------------------------------------
(* The error boundary                                                      *)

\* The request of slot s was answered by errorMiddleware.
Failed(s) == Done(s) /\ IsSome(req[s].thrown)

\* The classes errorMiddleware has a branch for.
KnownClasses ==
    {"HttpError", "ZodError", "JsonWebTokenError", "TokenExpiredError",
     "NotBeforeError"}

\* C14: an HttpError (NotFound 404, Conflict 409, Forbidden 403) is answered
\* with its own status and its own message, without details; a ZodError is
\* answered 400 with the fixed message 'Données invalides' and its issues as
\* details; an error of any class the middleware does not know is answered
\* 500.
C14_ErrorKinds ==
    \A s \in Slots :
        Failed(s) =>
            LET err == Get(req[s].thrown)
                resp == req[s].resp
            IN  /\ ~resp.success
                /\ err.class = "HttpError" =>
                      /\ resp.status = err.statusCode
                      /\ resp.error = Some(err.message)
                      /\ resp.details = None
                /\ err.class = "ZodError" =>
                      /\ resp.status = 400
                      /\ resp.error = Some("Données invalides")
                      /\ resp.details = Some(err.issues)
                /\ err.class \notin KnownClasses => resp.status = 500

\* A Conflict raised for one request was answered 409 with its message while
\* a store failure of another was answered 500.
C14_Witness ==
    /\ Failed(1)
    /\ Get(req[1].thrown) = HttpError(409, "Nom déjà utilisé")
    /\ req[1].resp.status = 409
    /\ req[1].resp.error = Some("Nom déjà utilisé")
    /\ Failed(2)
    /\ Get(req[2].thrown).class = "Error"
    /\ req[2].resp.status = 500

\* C15: in production the answer to an unclassified error is the one fixed
\* body {success: false, error: 'Erreur serveur'} with status 500, whatever
\* the message and the stack of the error; in the other modes the body
\* carries the message of the error; the stack is in the body in no mode.
C15_ProductionBody ==
    \A s \in Slots :
        (Failed(s) /\ Get(req[s].thrown).class \notin KnownClasses) =>
            LET err == Get(req[s].thrown) IN
            /\ env.NODE_ENV = "production" =>
                  req[s].resp = errorResponse(500, "Erreur serveur", None)
            /\ env.NODE_ENV # "production" =>
                  req[s].resp = errorResponse(500, err.message, None)
            /\ req[s].resp.error # Some(err.stack)
            /\ req[s].resp.details = None

\* In production two requests failed with unclassified errors of different
\* messages and stacks and were given the same body.
C15_Witness ==
    /\ env.NODE_ENV = "production"
    /\ Failed(1)
    /\ Failed(2)
    /\ Get(req[1].thrown).class \notin KnownClasses
    /\ Get(req[2].thrown).class \notin KnownClasses
    /\ Get(req[1].thrown).message # Get(req[2].thrown).message
    /\ Get(req[1].thrown).stack # Get(req[2].thrown).stack
    /\ req[1].resp = req[2].resp

-----------------------------------------------------------------------------
(* Validation of the three regions                                         *)

\* Slot s holds a request whose regions passed the validation of its route.
Passed(s) ==
    /\ req[s].pc # "idle"
    /\ req[s].http.via = "http"
    /\ ~Malformed(req[s].http)
    /\ ~(Done(s) /\ req[s].resp.status \in {400, 401})

HasBody(route) == route \in {"create", "update", "login"}
HasParams(route) == route \in {"get", "update", "delete"}

\* The normalised result of the shape of the route for a body.
NormalBody(http) ==
    IF http.route = "login" THEN ParseLogin(http.body) ELSE ParseItem(http.body)

\* No request with an undeclared field is refused by validation.
ExtraAccepted(s) ==
    (/\ req[s].pc # "idle"
     /\ ~Malformed(req[s].http)
     /\ (IsSome(req[s].http.body.extra) \/ IsSome(req[s].http.query.extra))) =>
        req[s].resp.status # 400

-----------------------------------------------------------------------------
(* The end-to-end scenario                                                 *)

\* The k-th request of the scripted client has been answered.
Answered(k) == client = k /\ Done(1)

\* The item of a Get answer.
Shown == Get(req[1].resp.item)

\* What the scenario promises apart from the order of the two timestamps.
ScenarioAnswers ==
    /\ Answered(1) =>
          /\ req[1].resp.status = 201
          /\ IsSome(req[1].resp.id)
          /\ Get(req[1].resp.id) \in Nat \ {0}
    /\ Answered(2) =>
          /\ req[1].resp.status = 200
          /\ IsSome(req[1].resp.item)
          /\ Shown.name = "a"
          /\ Shown.description = None
    /\ Answered(3) => req[1].resp.status = 200
    /\ Answered(4) =>
          /\ req[1].resp.status = 200
          /\ IsSome(req[1].resp.item)
          /\ Shown.name = "a"
          /\ Shown.description = Some("b")
    /\ Answered(5) => req[1].resp.status = 204
    /\ Answered(6) =>
          /\ req[1].resp.status = 404
          /\ req[1].resp.item = None

\* C17 as stated: the answers of the scenario, the second Get showing a
\* modification time later than the creation time.
C17_Original ==
    /\ ScenarioAnswers
    /\ Answered(4) => Shown.updated_at > Shown.created_at

\* C17, corrected: the answers of the scenario, the second Get showing a
\* modification time not earlier than the creation time.
C17_Scenario ==
    /\ ScenarioAnswers
    /\ Answered(4) => Shown.updated_at >= Shown.created_at

\* The client was answered 404 by its last Get, for an id that a Delete
\* removed.
C17_Witness ==
    /\ Answered(6)
    /\ req[1].resp.status = 404
    /\ req[1].id \in deleted
    /\ req[1].id = nextId - 1
    /\ items = <<>>

-----------------------------------------------------------------------------
(* Unknown routes                                                          *)

\* The error envelope {success: false, error} with status 404.
Envelope404(resp) ==
    /\ resp.status = 404
    /\ ~resp.success
    /\ IsSome(resp.error)
    /\ resp.details = None

\* C18 as stated: a request to a route the application does not define is
\* answered 404 with the error envelope, with or without a token.
C18_Original ==
    \A s \in Slots :
        (Done(s) /\ req[s].http.route \in UnknownRoutes) => Envelope404(req[s].resp)

\* C18, corrected: a request to a route the application does not define is
\* answered in the step that receives it; the answer is the 404 envelope,
\* except under /api/items when the token is not Authenticated, where it is
\* the 401 of the authentication boundary.
C18_UnknownRoute ==
    [][\A s \in Slots :
        (Received(s) /\ req'[s].http.route \in UnknownRoutes) =>
            /\ req'[s].pc = "done"
            /\ req'[s].statements = 0
            /\ IF req'[s].http.route = "items/unknown"
                   /\ TokenState(req'[s].http, now) # "Authenticated"
               THEN Refused401(req'[s])
               ELSE Envelope404(req'[s].resp)]_vars

\* Without a token, an unknown route under /api/items was answered 401 and
\* an unknown route elsewhere 404.
C18_Witness ==
    /\ Done(1)
    /\ req[1].http.route = "items/unknown"
    /\ TokenState(req[1].http, now) = "Missing"
    /\ req[1].resp.status = 401
    /\ Done(2)
    /\ req[2].http.route = "unknown"
    /\ TokenState(req[2].http, now) = "Missing"
    /\ Envelope404(req[2].resp)

-----------------------------------------------------------------------------
(* Token lifetime                                                          *)

\* The second at which loginHandler signed the token.
IssuedAt(token) == token.timestamp \div 1000

\* C19: a token signed by loginHandler at second t under a lifetime of L
\* seconds lets a request through, with its payload attached, at every
\* verification before second t + L, and is refused 401 as expired at every
\* verification from second t + L on, whatever other tokens have been
\* issued since; and no step takes a token back or changes one.
C19_TokenLifetime ==
    [][/\ issued \subseteq issued'
       /\ \A s \in Slots :
            (/\ Received(s)
             /\ req'[s].http.route = "get"
             /\ IsSome(Presented(req'[s].http))
             /\ Get(Presented(req'[s].http)) \in issued) =>
                LET token == Get(Presented(req'[s].http))
                    t == IssuedAt(token)
                    L == env.JWT_EXPIRY
                IN  /\ t <= now
                    /\ now < t + L =>
                          /\ req'[s].pc = "findById"
                          /\ req'[s].user = Some([authenticated |-> TRUE,
                                                   timestamp |-> token.timestamp])
                    /\ now >= t + L =>
                          /\ Refused401(req'[s])
                          /\ Get(req'[s].thrown).class = "TokenExpiredError"]_vars

\* After a second login, the token of the first login was refused as
\* expired while the token of the second login let its request through.
C19_Witness ==
    /\ Cardinality(issued) = 2
    /\ Refused401(req[1])
    /\ IsSome(req[1].http.cookie)
    /\ Get(req[1].http.cookie) \in issued
    /\ IssuedAt(Get(req[1].http.cookie)) + env.JWT_EXPIRY <= now
    /\ req[2].pc = "findById"
    /\ IsSome(req[2].http.authorization)
    /\ Get(req[2].http.authorization).rest \in issued
    /\ IssuedAt(Get(req[2].http.authorization).rest) > IssuedAt(Get(req[1].http.cookie))

-----------------------------------------------------------------------------
(* Who changes the records                                                 *)

\* The step changes the table or its id counter.
RecordsChange == items' # items \/ nextId' # nextId

\* The step is the statement of a Create, an Update or a Delete of slot s.
WriteOf(s) ==
    /\ req[s].http.route \in {"create", "update", "delete"}
    /\ IsSome(req[s].user)
    /\ req[s].pc \in {"create", "update", "remove"}
    /\ req'[s].pc = "done"
    /\ req'[s].mutations = req[s].mutations + 1

\* C20: the records change only in the statement of a Create, an Update or
\* a Delete of an authenticated request.  The step that verifies the token
\* of a request, whatever its outcome, every step of a login, whatever its
\* outcome, and every step of a List or a Get leave the records as they
\* were.
C20_Frame ==
    [][/\ RecordsChange => \E s \in Slots : WriteOf(s)
       /\ \A s \in Slots :
            (\/ Received(s)
             \/ (req'[s] # req[s] /\ req[s].http.route \in {"login", "list", "get"})) =>
                ~RecordsChange]_vars

\* With a record in the table, a login was answered 200 and a Get that
\* presented an unusable token was answered 401, the record being as the
\* Create and the Update left it.
C20_Witness ==
    /\ Done(1)
    /\ req[1].http.route = "login"
    /\ req[1].resp.status = 200
    /\ Done(2)
    /\ req[2].http.route = "get"
    /\ req[2].resp.status = 401
    /\ 1 \in DOMAIN items
    /\ items[1].name = "b"

-----------------------------------------------------------------------------
(* Update and Delete against a concurrent Delete                           *)

\* The request of slot s is an Update with at least one present field that
\* was answered success.
UpdateSucceeded(s) ==
    /\ Done(s)
    /\ req[s].http.route = "update"
    /\ UpdateFields(req[s].http.body) # <<>>
    /\ req[s].resp.status = 200

\* C21: an Update with at least one present field that returns success has
\* modified a record that existed when its UPDATE statement ran: the
\* statement affected one row, never zero.
C21_UpdateModifies ==
    \A s \in Slots : UpdateSucceeded(s) => req[s].affectedRows = Some(1)

\* The request of slot s is a Delete of id that was answered 204.
DeleteSucceeded(s, id) ==
    /\ Done(s)
    /\ req[s].http.route = "delete"
    /\ req[s].id = id
    /\ req[s].resp.status = 204

\* C22: of the Delete requests for one id, at most one returns 204 for the
\* record; a Delete answered 204 has removed the record itself.
C22_OneDelete ==
    \A id \in 1..MaxId :
        /\ \A s, t \in Slots :
              (DeleteSucceeded(s, id) /\ DeleteSucceeded(t, id)) => s = t
        /\ \A s \in Slots :
              DeleteSucceeded(s, id) => req[s].affectedRows = Some(1)

-----------------------------------------------------------------------------
(* Order of the layers                                                     *)

\* The step in which slot s takes a request to an item route.
ReceivedItem(s) ==
    /\ Received(s)
    /\ req'[s].http.via = "http"
    /\ req'[s].http.route \in {"list", "get", "create", "update", "delete"}

\* C23 as stated: validation runs before the token is verified, so a
\* request to an item route whose region is malformed is answered 400
\* whatever its token.
C23_Original ==
    [][\A s \in Slots :
        (ReceivedItem(s) /\ Malformed(req'[s].http)) =>
            /\ req'[s].pc = "done"
            /\ req'[s].resp.status = 400]_vars

\* C23, corrected: a request to an item route is processed in the order
\* authentication, validation, resource access.  A request whose token is
\* not Authenticated is answered 401 whether or not its region is
\* well-formed; an Authenticated request whose region is malformed is
\* answered 400; only an Authenticated and well-formed request reaches the
\* service, and no statement has been issued for it before.
C23_AuthFirst ==
    [][\A s \in Slots :
        ReceivedItem(s) =>
            LET http == req'[s].http
                state == TokenState(http, now)
            IN  /\ state # "Authenticated" => Refused401(req'[s])
                /\ (state = "Authenticated" /\ Malformed(http)) =>
                      /\ req'[s].pc = "done"
                      /\ req'[s].resp.status = 400
                      /\ IsSome(req'[s].user)
                      /\ req'[s].statements = 0
                /\ (state = "Authenticated" /\ ~Malformed(http)) =>
                      /\ req'[s].pc \in {"list", "findById", "create"}
                      /\ IsSome(req'[s].user)
                      /\ req'[s].statements = 0]_vars

\* The same malformed Update was answered 401 without a token and 400
\* with a good one.
C23_Witness ==
    /\ Done(1)
    /\ Done(2)
    /\ req[1].http.route = "update"
    /\ Malformed(req[1].http)
    /\ req[1].http.body = req[2].http.body
    /\ req[1].http.params = req[2].http.params
    /\ req[2].http.route = "update"
    /\ TokenState(req[1].http, now) = "Missing"
    /\ req[1].resp.status = 401
    /\ req[2].http.authorization = Some(Header("Bearer ", ValidToken))
    /\ req[2].resp.status = 400

-----------------------------------------------------------------------------
(* Concurrent updates                                                      *)

\* The columns an Update can give.
PatchColumns == {"name", "description"}

\* The value column f has after a statement that sets it from patch.
Given(patch, f) == IF f = "name" THEN Get(patch.name) ELSE patch.description

\* The Update of slot s was answered; its patch gave column f.
Updated(s) == Done(s) /\ req[s].http.route = "update" /\ req[s].resp.status = 200
Gave(s, f) == IsSome(req[s].http.body[f])

\* Of the answered Updates that gave f, the one whose UPDATE ran last.
LastWriter(f) ==
    CHOOSE s \in Slots :
        /\ Gave(s, f)
        /\ \A t \in Slots \ {s} : Gave(t, f) => t \in req[s].wroteAfter

\* Both Updates of the item were answered: each column holds the value of
\* the last Update that gave it, or its first value when none did.
FinalValues ==
    (Updated(1) /\ Updated(2)) =>
        /\ (Gave(1, "name") /\ Gave(2, "name")) =>
              (2 \in req[1].wroteAfter) # (1 \in req[2].wroteAfter)
        /\ \A f \in PatchColumns :
              items[1][f] =
                  IF \E s \in Slots : Gave(s, f)
                  THEN Given(req[LastWriter(f)].http.body, f)
                  ELSE InitialRow[f]

\* C24: two concurrent Updates of the same existing id end, in every
\* interleaving, with each field at the value of the last Update that wrote
\* it: a field only one of them gave has that Update's value, a field both
\* gave has the later write's value, a field neither gave is unchanged.
\* Every UPDATE sets exactly the fields its patch gives, and no other step
\* touches them.
C24_LastWriteWins ==
    [][/\ FinalValues'
       /\ \A s \in Slots :
            (req[s].pc = "update" /\ req'[s].pc = "done") =>
                \A f \in PatchColumns :
                    items'[1][f] = IF Gave(s, f)
                                   THEN Given(req[s].http.body, f)
                                   ELSE items[1][f]
       /\ (\A s \in Slots : req[s].pc = "update" => req'[s].pc = "update") =>
            \A f \in PatchColumns : items'[1][f] = items[1][f]]_vars

\* Slot 1 gave both fields and slot 2 gave only the name; slot 2's UPDATE
\* ran after slot 1's: the name is slot 2's and the description slot 1's.
C24_Witness ==
    /\ Updated(1)
    /\ Updated(2)
    /\ Gave(1, "name")
    /\ Gave(1, "description")
    /\ Gave(2, "name")
    /\ ~Gave(2, "description")
    /\ 1 \in req[2].wroteAfter
    /\ items[1].name = "c"
    /\ items[1].description = Some("x")

-----------------------------------------------------------------------------
(* The log of unclassified errors                                          *)

\* Effect i of the request of slot s is the console line of err.
LogsError(s, i, err) ==
    /\ req[s].effects[i].kind = "log"
    /\ req[s].effects[i].line.level = "ERROR"
    /\ req[s].effects[i].line.context.message = err.message
    /\ req[s].effects[i].line.context.stack = err.stack

\* Effect j of the request of slot s is its 500 response.
Responds500(s, j) ==
    /\ req[s].effects[j].kind = "response"
    /\ req[s].effects[j].resp.status = 500

\* C25: every unclassified error is written to the console, with its
\* message and its stack, before the 500 response for it is sent, in every
\* runtime mode; and every request answered 500 had failed with an error
\* whose line was written before the response.
C25_LoggedBefore500 ==
    \A s \in Slots :
        /\ (Failed(s) /\ Unclassified(Get(req[s].thrown))) =>
              /\ req[s].resp.status = 500
              /\ \E j \in DOMAIN req[s].effects :
                    /\ Responds500(s, j)
                    /\ req[s].effects[j].resp = req[s].resp
        /\ (Done(s) /\ req[s].resp.status = 500) =>
              /\ IsSome(req[s].thrown)
              /\ \A j \in DOMAIN req[s].effects :
                    Responds500(s, j) =>
                        \E i \in 1..(j - 1) : LogsError(s, i, Get(req[s].thrown))

\* In production a request failed because the store refused the
\* connection: the body hides the message, the console line written before
\* the response has it with the stack.
C25_Witness ==
    \E s \in Slots :
        /\ Failed(s)
        /\ env.NODE_ENV = "production"
        /\ Get(req[s].thrown).message = "connect ECONNREFUSED 127.0.0.1:3306"
        /\ req[s].resp = errorResponse(500, "Erreur serveur", None)
        /\ Len(req[s].effects) = 2
        /\ LogsError(s, 1, Get(req[s].thrown))
        /\ req[s].effects[1].line.context.stack = "at PromisePool.execute"
        /\ Responds500(s, 2)

-----------------------------------------------------------------------------
(* Shutdown                                                                *)

InFlight(s) == req[s].pc \notin {"idle", "done"}
Signalled == proc.signalAt # None
Exited == proc.exit # None

\* The states of a shutdown: the forced exit comes at the deadline of the
\* first signal and not before, the process does not live past it, the
\* clean exit comes after the server has closed and the pool has ended,
\* and the pool is closed only once the server has closed with no request
\* in flight, or with the process.
DrainStates ==
    /\ proc.exit = Some(1) =>
          /\ Signalled
          /\ now >= Get(proc.signalAt) + SHUTDOWN_TIMEOUT
          /\ pool.state = "destroyed"
    /\ (Signalled /\ ~Exited) => now <= Get(proc.signalAt) + SHUTDOWN_TIMEOUT
    /\ proc.exit = Some(0) =>
          /\ Signalled
          /\ proc.server = "closed"
          /\ pool.state = "ended"
          /\ \A s \in Slots : ~InFlight(s)
    /\ pool.state \in {"ending", "ended"} =>
          /\ proc.server = "closed"
          /\ \A s \in Slots : ~InFlight(s)
    /\ pool.state = "destroyed" => proc.exit = Some(1)
    /\ pool.state = "open" => ~Exited
    /\ Signalled <=> proc.server # "listening"

\* C26: after SIGTERM or SIGINT no request is accepted any more, the
\* requests in flight may go on until the deadline of 10 seconds, the
\* process exits by then at the latest, and it always exits; the pool is
\* closed only after the server has stopped with every request in flight
\* completed, or with the forced exit that abandons them; a request that is
\* abandoned stays as it was, and nothing runs after the exit.
C26_Shutdown ==
    /\ []DrainStates
    /\ [][/\ Signalled => \A s \in Slots : ~Received(s)
          /\ Exited => UNCHANGED <<items, nextId, req, pool, proc>>]_vars
    /\ Signalled ~> Exited

\* The deadline has passed with an Update still waiting for its UPDATE: the
\* process was terminated with code 1, the request is abandoned and the
\* pool went with the process.
C26_Witness ==
    /\ proc.exit = Some(1)
    /\ proc.signals = {"SIGTERM"}
    /\ now = Get(proc.signalAt) + SHUTDOWN_TIMEOUT
    /\ req[1].pc = "update"
    /\ req[1].statements = 1
    /\ pool.state = "destroyed"
    /\ proc.server = "closing"

-----------------------------------------------------------------------------
(* The connection pool                                                     *)

Waits(s, stmt) == <<s, stmt>> \in Range(pool.queue)

Statements == {"findAll", "countAll", "findById", "update"}

\* No more connections are in use than the pool has; every statement a
\* request has sent either holds a connection or waits for one, in one
\* place only, and no request has been refused.
PoolBound ==
    /\ Cardinality(pool.conns) <= env.DB_POOL_SIZE
    /\ pool.conns \cap Range(pool.queue) = {}
    /\ \A i, j \in DOMAIN pool.queue : pool.queue[i] = pool.queue[j] => i = j
    /\ pool.queue # <<>> => Cardinality(pool.conns) = env.DB_POOL_SIZE
    /\ \A s \in Slots :
          /\ \A stmt \in Statements :
                (Holds(s, stmt) \/ Waits(s, stmt))
                    <=> stmt \in Range(Pending(req[s]))
          /\ req[s].thrown = None

\* C27: the connections in use never exceed DB_POOL_SIZE; a statement that
\* finds them all in use waits and is never refused; and, every statement
\* acquiring and releasing its own connection, every statement that waits
\* obtains a connection, for every pool size from 1 up, provided the store
\* answers the statements that have one.
C27_Pool ==
    /\ []PoolBound
    /\ \A s \in Slots : \A stmt \in Statements :
          Waits(s, stmt) ~> Holds(s, stmt)

\* With one connection the page read of a List has been answered and its
\* count, which waited meanwhile, has the connection; the SELECT of a Get
\* waits.
C27_Witness ==
    /\ env.DB_POOL_SIZE = 1
    /\ req[1].pc = "list"
    /\ req[1].gotItems
    /\ pool.conns = {<<1, "countAll">>}
    /\ pool.queue = <<(<<2, "findById">>)>>
    /\ req[2].http.route = "get"

====
